---- MODULE Spec2Model ----
(***************************************************************************)
(* Model of the mojibake extension: the Unicode styling engine, the        *)
(* AIService singleton of shared/ai.js and the floating toolbar of the     *)
(* content script.                                                         *)
(*                                                                         *)
(* A text is a sequence of Unicode code points (natural numbers, the real  *)
(* code point values).  The process-wide state of the engine is the        *)
(* reverse-map table REVERSE_CHAR_MAPS; every other operation is a pure    *)
(* function of its arguments and of that table.  AIService and the content *)
(* script keep module-level variables that event handlers, timers and      *)
(* promise continuations read and write; a step of their models is one     *)
(* task of the event loop together with the microtasks it causes.          *)
(***************************************************************************)
EXTENDS Naturals, Integers, Sequences, FiniteSets, TLC

VARIABLES
    REVERSE_CHAR_MAPS,  \* reverse-maps.js: style -> (styled code point -> plain code point)
    text,               \* the text the caller currently holds
    calls,              \* the text-transforming calls made so far, each with input and output
    query,              \* the result of the most recent detection call on `text`
    \* shared/ai.js
    session,            \* the cached LanguageModel session (a creation's index) or Null
    sessionPromise,     \* the cached creation promise (a creation's index) or Null
    isProcessing,       \* a polish request is being served
    pendingText,        \* the text of the last appendText, NoText for null
    debounceTimer,      \* id of the last debounce timer set and not cleared by the code, or Null
    creations,          \* the bodies of getSession's async closure started so far
    timers,             \* the debounce timers set so far and the state of their callbacks
    polishCalls,        \* the polish calls made so far
    destroys,           \* how many times destroySession has run
    \* content/content.js
    toolbar,            \* the toolbar element, NoElement before createToolbar
    toolbarVisible,     \* toolbar.classList has 'visible'
    currentElement,     \* the editable element the toolbar is attached to, or NoElement
    activeStyle,        \* the style applied to typed text, NoStyle for null
    toolbarDisabled,    \* the toolbar is globally disabled
    longPressTimer,     \* id of the long-press timer, or Null
    longPressTarget,    \* the element being long-pressed, or NoElement
    isLongPressing,     \* a long-press is in progress
    pressTimers,        \* the long-press timers set so far
    activeElement,      \* document.activeElement
    focusTimers,        \* pending callbacks of the focusout listener's setTimeout
    handled             \* the event handled last and what its handler did

engineVars == <<REVERSE_CHAR_MAPS, text, calls, query>>

aiVars ==
    <<session, sessionPromise, isProcessing, pendingText, debounceTimer,
      creations, timers, polishCalls, destroys>>

contentVars ==
    <<toolbar, toolbarVisible, currentElement, activeStyle, toolbarDisabled,
      longPressTimer, longPressTarget, isLongPressing, pressTimers,
      activeElement, focusTimers, handled>>

vars == <<engineVars, aiVars, contentVars>>

\* null, for a session, a promise or a timer id
Null == 0

\* null or '' for pendingText
NoText == "null"

\* null for an element; the page outside every editable element
NoElement == "null"

\* null for activeStyle
NoStyle == "null"

\* `handled` before any event: no handler has run
NoEvent == [event |-> "none", hid |-> FALSE, restyled |-> FALSE]

\* ai.js:10-22: the module-level variables as declared
InitAIService ==
    /\ session = Null
    /\ sessionPromise = Null
    /\ isProcessing = FALSE
    /\ pendingText = NoText
    /\ debounceTimer = Null
    /\ creations = <<>>
    /\ timers = <<>>
    /\ polishCalls = <<>>
    /\ destroys = 0

\* content.js:75-97: the module-level variables as declared; focus is on the
\* page body and nothing has been handled yet
InitContentScript ==
    /\ toolbar = NoElement
    /\ toolbarVisible = FALSE
    /\ currentElement = NoElement
    /\ activeStyle = NoStyle
    /\ toolbarDisabled = TRUE
    /\ longPressTimer = Null
    /\ longPressTarget = NoElement
    /\ isLongPressing = FALSE
    /\ pressTimers = <<>>
    /\ activeElement = "body"
    /\ focusTimers = 0
    /\ handled = NoEvent

(***************************************************************************)
(* Bounds of the model.                                                    *)
(***************************************************************************)
MaxLen == 3         \* code points in a drawn text (toggle and apply/remove scenarios)
MaxDetectLen == 4   \* code points in a text drawn for the detection scenario
MaxPlainLen == 2    \* code points in a plain text drawn for the round-trip scenario
MaxCalls == 4       \* text-transforming calls in one round-trip behaviour
MaxToggles == 2     \* toggleStyle calls in one toggle behaviour
MaxEdits == 2       \* applyStyle and removeStyle calls in one edit behaviour
MaxMarkCalls == 2   \* calls of the combining-mark functions in one behaviour
MaxEarlyCalls == 1  \* text-transforming calls in one late-initialization behaviour
MaxPlainCalls == 2  \* toPlainText calls in one plain-text behaviour
MaxPolish == 2       \* polish calls in one AIService behaviour
MaxAppends == 2      \* appendText calls in one AIService behaviour
MaxPresses == 2      \* mousedown events on editable elements in one behaviour
MaxFocusTimers == 1  \* callbacks of the focusout listener pending at once

(***************************************************************************)
(* Generic helpers on sequences.                                           *)
(***************************************************************************)
RECURSIVE Flatten(_)
Flatten(ss) == IF ss = <<>> THEN <<>> ELSE Head(ss) \o Flatten(Tail(ss))

Contains(s, x) == \E i \in 1..Len(s) : s[i] = x

SeqsUpTo(S, n) == UNION {[1..k -> S] : k \in 0..n}

(***************************************************************************)
(* char-maps.js: the source alphabets.                                     *)
(***************************************************************************)
UPPERCASE == [i \in 1..26 |-> 64 + i]          \* 'A'..'Z'
LOWERCASE == [i \in 1..26 |-> 96 + i]          \* 'a'..'z'
DIGITS == [i \in 1..10 |-> 47 + i]             \* '0'..'9'
\* U+0391..U+03A1, U+03A3..U+03A9 (no code point U+03A2): 24 letters
GREEK_UPPER == [i \in 1..24 |-> IF i <= 17 THEN 912 + i ELSE 913 + i]
\* U+03B1..U+03C9 including final sigma U+03C2: 25 letters
GREEK_LOWER == [i \in 1..25 |-> 944 + i]

\* chars.split('').reduce(...): the i-th source character (0-based) maps to
\* startCodePoint + i; a repeated character keeps its last index.
buildMapFromRange(chars, startCodePoint) ==
    [c \in {chars[i] : i \in 1..Len(chars)} |->
        LET last == CHOOSE i \in 1..Len(chars) :
                        /\ chars[i] = c
                        /\ \A j \in 1..Len(chars) : chars[j] = c => j <= i
        IN  startCodePoint + (last - 1)]

\* circled.digits: '0' -> U+24EA, DIGITS.slice(1)[index] -> U+2460 + index
CircledDigits ==
    [c \in 48..57 |-> IF c = 48 THEN 9450 ELSE 9312 + (c - 49)]

\* smallCaps.lower: the explicit table, a..z in order
SmallCapsLowerTargets ==
    << 7424, 665, 7428, 7429, 7431, 42800, 610,
       668, 618, 7434, 7435, 671, 7437, 628,
       7439, 7448, 491, 640, 42801, 7451, 7452,
       7456, 7457, 120, 655, 7458 >>

SmallCapsLower == [c \in 97..122 |-> SmallCapsLowerTargets[c - 96]]

\* mutant: smallCaps sends an uppercase letter to its lowercase letter
SmallCapsUpper_Lowered == [c \in 65..90 |-> c + 32]

\* smallCaps.upper: every uppercase letter maps to itself
SmallCapsUpper == [c \in 65..90 |-> c]

CHAR_MAPS ==
    [ bold |->
        [ upper      |-> buildMapFromRange(UPPERCASE, 120276),    \* 0x1D5D4
          lower      |-> buildMapFromRange(LOWERCASE, 120302),    \* 0x1D5EE
          digits     |-> buildMapFromRange(DIGITS, 120812),       \* 0x1D7EC
          greekUpper |-> buildMapFromRange(GREEK_UPPER, 120488),  \* 0x1D6A8
          greekLower |-> buildMapFromRange(GREEK_LOWER, 120514) ],\* 0x1D6C2
      italic |->
        [ upper      |-> buildMapFromRange(UPPERCASE, 120328),    \* 0x1D608
          lower      |-> buildMapFromRange(LOWERCASE, 120354),    \* 0x1D622
          greekUpper |-> buildMapFromRange(GREEK_UPPER, 120546),  \* 0x1D6E2
          greekLower |-> buildMapFromRange(GREEK_LOWER, 120572) ],\* 0x1D6FC
      boldItalic |->
        [ upper      |-> buildMapFromRange(UPPERCASE, 120380),    \* 0x1D63C
          lower      |-> buildMapFromRange(LOWERCASE, 120406),    \* 0x1D656
          greekUpper |-> buildMapFromRange(GREEK_UPPER, 120604),  \* 0x1D71C
          greekLower |-> buildMapFromRange(GREEK_LOWER, 120630) ],\* 0x1D736
      monospace |->
        [ upper      |-> buildMapFromRange(UPPERCASE, 120432),    \* 0x1D670
          lower      |-> buildMapFromRange(LOWERCASE, 120458),    \* 0x1D68A
          digits     |-> buildMapFromRange(DIGITS, 120822) ],     \* 0x1D7F6
      script |->
        [ upper      |-> buildMapFromRange(UPPERCASE, 120016),    \* 0x1D4D0
          lower      |-> buildMapFromRange(LOWERCASE, 120042) ],  \* 0x1D4EA
      fraktur |->
        [ upper      |-> buildMapFromRange(UPPERCASE, 120172),    \* 0x1D56C
          lower      |-> buildMapFromRange(LOWERCASE, 120198) ],  \* 0x1D586
      circled |->
        [ upper      |-> buildMapFromRange(UPPERCASE, 9398),      \* 0x24B6
          lower      |-> buildMapFromRange(LOWERCASE, 9424),      \* 0x24D0
          digits     |-> CircledDigits ],
      fullwidth |->
        [ upper      |-> buildMapFromRange(UPPERCASE, 65313),     \* 0xFF21
          lower      |-> buildMapFromRange(LOWERCASE, 65345),     \* 0xFF41
          digits     |-> buildMapFromRange(DIGITS, 65296) ],      \* 0xFF10
      smallCaps |->
        [ lower      |-> SmallCapsLower,
          upper      |-> SmallCapsUpper ] ]

\* Object.entries(CHAR_MAPS) / Object.values(REVERSE_CHAR_MAPS): insertion order
StyleOrder ==
    << "bold", "italic", "boldItalic", "monospace", "script", "fraktur",
       "circled", "fullwidth", "smallCaps" >>

SubstitutionStyles == {StyleOrder[i] : i \in 1..Len(StyleOrder)}

MarkStyles == {"strikethrough", "underline"}

\* the 11 style identifiers
StyleIds == SubstitutionStyles \cup MarkStyles

\* identifiers outside the 11: an ordinary unknown name, and a name that the
\* lookup CHAR_MAPS[style] / REVERSE_CHAR_MAPS[style] resolves through
\* Object.prototype to a truthy object without any category or entry
PrototypeKeys == {"constructor"}

UnknownStyles == {"unknownStyle"} \cup PrototypeKeys

(***************************************************************************)
(* reverse-maps.js                                                         *)
(***************************************************************************)
CategoryOrder == << "upper", "lower", "digits", "greekUpper", "greekLower" >>

\* mutant: only the categories upper and lower are inverted
buildReverseMaps_LatinOnly(charMaps) ==
    [ styleName \in DOMAIN charMaps |->
        LET styleMap == charMaps[styleName]
            pairs == UNION { {<<styleMap[category][original], original>> :
                                  original \in DOMAIN styleMap[category]} :
                             category \in {"upper", "lower"} \cap DOMAIN styleMap }
        IN  [ styled \in {pr[1] : pr \in pairs} |->
                (CHOOSE pr \in pairs : pr[1] = styled)[2] ] ]

\* buildReverseMaps: for every style, every category in CategoryOrder, every
\* entry in key order: reverse[style][styled] = original.  A styled code point
\* written twice keeps the original written last.
buildReverseMaps(charMaps) ==
    [ styleName \in DOMAIN charMaps |->
        LET styleMap == charMaps[styleName]
            present == {i \in 1..Len(CategoryOrder) : CategoryOrder[i] \in DOMAIN styleMap}
            writes == UNION { {<<i, original>> : original \in DOMAIN styleMap[CategoryOrder[i]]} :
                              i \in present }
            styledOf(w) == styleMap[CategoryOrder[w[1]]][w[2]]
            later(v, w) == v[1] > w[1] \/ (v[1] = w[1] /\ v[2] >= w[2])
        IN  [ styled \in {styledOf(w) : w \in writes} |->
                LET hits == {w \in writes : styledOf(w) = styled}
                    lastW == CHOOSE w \in hits : \A v \in hits : later(w, v)
                IN  lastW[2] ] ]

\* let REVERSE_CHAR_MAPS = {}
EmptyReverseMaps == [styleName \in {} |-> [styled \in {} |-> 0]]

BuiltReverseMaps == buildReverseMaps(CHAR_MAPS)

(***************************************************************************)
(* normalization.js: String.prototype.normalize, Unicode Normalization     *)
(* Forms C and D.  The canonical data is given for the code points that    *)
(* the model's texts use; every other code point of those texts is a       *)
(* starter without a decomposition.                                        *)
(***************************************************************************)
\* Canonical_Combining_Class
CombiningClass(cp) ==
    CASE cp = 822 -> 1        \* U+0336 COMBINING LONG STROKE OVERLAY
      [] cp = 808 -> 202      \* U+0328 COMBINING OGONEK
      [] cp = 818 -> 220      \* U+0332 COMBINING LOW LINE
      [] cp = 769 -> 230      \* U+0301 COMBINING ACUTE ACCENT
      [] OTHER -> 0

\* canonical Decomposition_Mapping
CanonicalDecomposition(cp) ==
    CASE cp = 233 -> <<101, 769>>     \* U+00E9 = e + U+0301
      [] cp = 491 -> <<111, 808>>     \* U+01EB = o + U+0328
      [] cp = 940 -> <<945, 769>>     \* U+03AC = alpha + U+0301
      [] OTHER -> <<cp>>

\* primary composites: the inverse of CanonicalDecomposition
ComposablePairs == {<<101, 769>>, <<111, 808>>, <<945, 769>>}

PrimaryComposite(first, second) ==
    CASE first = 101 /\ second = 769 -> 233
      [] first = 111 /\ second = 808 -> 491
      [] first = 945 /\ second = 769 -> 940

\* canonical ordering: adjacent non-starters are exchanged while the first has
\* the larger combining class
RECURSIVE CanonicalOrder(_)
CanonicalOrder(s) ==
    LET bad == {i \in 1..(Len(s) - 1) :
                    /\ CombiningClass(s[i + 1]) > 0
                    /\ CombiningClass(s[i]) > CombiningClass(s[i + 1])}
    IN  IF bad = {} THEN s
        ELSE LET i == CHOOSE j \in bad : \A k \in bad : j <= k
             IN  CanonicalOrder([s EXCEPT ![i] = s[i + 1], ![i + 1] = s[i]])

\* canonical composition: a code point combines with the last starter unless
\* it is blocked from it
RECURSIVE ComposeFrom(_, _, _, _)
ComposeFrom(out, starterPos, lastClass, rest) ==
    IF rest = <<>> THEN out
    ELSE LET ch == Head(rest)
             cc == CombiningClass(ch)
             combines == /\ <<out[starterPos], ch>> \in ComposablePairs
                         /\ (lastClass < cc \/ lastClass = 0)
         IN  IF combines
             THEN ComposeFrom([out EXCEPT ![starterPos] = PrimaryComposite(out[starterPos], ch)],
                              starterPos, lastClass, Tail(rest))
             ELSE ComposeFrom(Append(out, ch),
                              IF cc = 0 THEN Len(out) + 1 ELSE starterPos,
                              cc, Tail(rest))

CanonicalCompose(s) ==
    IF s = <<>> THEN s
    ELSE ComposeFrom(<<s[1]>>, 1, IF CombiningClass(s[1]) = 0 THEN 0 ELSE 256, Tail(s))

\* normalizeNFD: `if (!text) return text`, else text.normalize('NFD')
normalizeNFD(t) ==
    IF t = <<>> THEN t
    ELSE CanonicalOrder(Flatten([i \in 1..Len(t) |-> CanonicalDecomposition(t[i])]))

\* normalizeNFC: `if (!text) return text`, else text.normalize('NFC')
normalizeNFC(t) ==
    IF t = <<>> THEN t
    ELSE CanonicalCompose(CanonicalOrder(Flatten([i \in 1..Len(t) |-> CanonicalDecomposition(t[i])])))

(***************************************************************************)
(* graphemes.js: Intl.Segmenter with granularity 'grapheme', the extended  *)
(* grapheme clusters of UAX #29.  Rules GB3, GB4, GB5, GB9, GB11 and GB999 *)
(* are the ones that apply to the code points of the model's texts.        *)
(***************************************************************************)
GraphemeBreakClass(cp) ==
    CASE cp = 13 -> "CR"
      [] cp = 10 -> "LF"
      [] cp \in (0..31) \cup (127..159) \cup {173, 8203, 8232, 8233, 65279} -> "Control"
      [] cp \in (768..879) \cup {8204, 65039} \cup (127995..127999) -> "Extend"
      [] cp = 8205 -> "ZWJ"
      [] cp \in {128075, 128077, 128103, 128104, 128105} -> "ExtPict"
      [] OTHER -> "Other"

\* TRUE iff there is no cluster boundary between t[i] and t[i+1]
NoBreakAfter(t, i) ==
    LET a == GraphemeBreakClass(t[i])
        b == GraphemeBreakClass(t[i + 1])
    IN  IF a = "CR" /\ b = "LF" THEN TRUE                                   \* GB3
        ELSE IF a \in {"CR", "LF", "Control"} THEN FALSE                    \* GB4
        ELSE IF b \in {"CR", "LF", "Control"} THEN FALSE                    \* GB5
        ELSE IF b \in {"Extend", "ZWJ"} THEN TRUE                           \* GB9
        ELSE IF a = "ZWJ" /\ b = "ExtPict"                                  \* GB11
             THEN \E j \in 1..(i - 1) :
                     /\ GraphemeBreakClass(t[j]) = "ExtPict"
                     /\ \A k \in (j + 1)..(i - 1) : GraphemeBreakClass(t[k]) = "Extend"
             ELSE FALSE                                                     \* GB999

RECURSIVE ClustersFrom(_, _, _)
ClustersFrom(t, start, i) ==
    IF i > Len(t) THEN <<>>
    ELSE IF i = Len(t) \/ ~NoBreakAfter(t, i)
         THEN <<SubSeq(t, start, i)>> \o ClustersFrom(t, i + 1, i + 1)
         ELSE ClustersFrom(t, start, i + 1)

\* segmentGraphemes: `if (!text) return []`, else the segments in order
segmentGraphemes(t) == IF t = <<>> THEN <<>> ELSE ClustersFrom(t, 1, 1)

\* the strings a callback of mapGraphemes or filterGraphemes is applied to
Clusters == Seq(Nat)

\* mapGraphemes: graphemes.map(fn).join('')
mapGraphemes(t, fn) ==
    LET graphemes == segmentGraphemes(t)
    IN  Flatten([i \in 1..Len(graphemes) |-> fn[graphemes[i]]])

\* filterGraphemes: graphemes.filter(predicate).join('')
filterGraphemes(t, predicate) ==
    Flatten(SelectSeq(segmentGraphemes(t), LAMBDA c : predicate[c]))

(***************************************************************************)
(* combining-marks.js                                                      *)
(***************************************************************************)
STRIKETHROUGH == 822    \* CombiningMarks.STRIKETHROUGH, U+0336
UNDERLINE == 818        \* CombiningMarks.UNDERLINE, U+0332

STYLE_MARKS == {STRIKETHROUGH, UNDERLINE}

\* cluster.includes(mark)
hasStyleMark(cluster, mark) == Contains(cluster, mark)

\* mutant: only the underline mark is stripped
stripStyleMarks_UnderlineOnly(cluster) == SelectSeq(cluster, LAMBDA cp : cp # UNDERLINE)

\* mutant: only the strikethrough mark is stripped
stripStyleMarks_StrikeOnly(cluster) == SelectSeq(cluster, LAMBDA cp : cp # STRIKETHROUGH)

\* [...cluster].filter(cp => !STYLE_MARKS.has(cp)).join('')
stripStyleMarks(cluster) == SelectSeq(cluster, LAMBDA cp : cp \notin STYLE_MARKS)

\* mutant: only the first occurrence of the mark is removed
stripMark_FirstOnly(cluster, mark) ==
    IF ~Contains(cluster, mark) THEN cluster
    ELSE LET first == CHOOSE i \in 1..Len(cluster) :
                          cluster[i] = mark /\ \A j \in 1..(i - 1) : cluster[j] # mark
         IN  SubSeq(cluster, 1, first - 1) \o SubSeq(cluster, first + 1, Len(cluster))

\* mutant: every managed mark is removed, not only the given one
stripMark_AnyMark(cluster, mark) == SelectSeq(cluster, LAMBDA cp : cp \notin STYLE_MARKS)

\* [...cluster].filter(cp => cp !== mark).join('')
stripMark(cluster, mark) == SelectSeq(cluster, LAMBDA cp : cp # mark)

\* mutant: the mark is appended without looking for one already there
addStyleMark_Always(cluster, mark) ==
    IF cluster = <<>> THEN cluster ELSE Append(cluster, mark)

addStyleMark(cluster, mark) ==
    IF cluster = <<>> THEN cluster
    ELSE IF hasStyleMark(cluster, mark) THEN cluster
    ELSE Append(cluster, mark)

removeStyleMark(cluster, mark) == stripMark(cluster, mark)

(***************************************************************************)
(* Regular expressions used by the engine (they test UTF-16 code units;    *)
(* every code point they accept is in the BMP).                            *)
(***************************************************************************)
\* the code points matched by \s
WhiteSpace ==
    {9, 10, 11, 12, 13, 32, 160, 5760, 8232, 8233, 8239, 8287, 12288, 65279}
        \cup (8192..8202)

\* /^\s+$/.test(cluster)
IsAllWhiteSpace(cluster) ==
    cluster # <<>> /\ \A i \in 1..Len(cluster) : cluster[i] \in WhiteSpace

\* /\S/.test(c)
HasNonWhiteSpace(c) == \E i \in 1..Len(c) : c[i] \notin WhiteSpace

\* /[a-zA-Z0-9]/i.test(g)
HasAsciiAlphanumeric(g) ==
    \E i \in 1..Len(g) : g[i] \in (48..57) \cup (65..90) \cup (97..122)

(***************************************************************************)
(* index.js (bundled in content.js): the styling engine.                   *)
(***************************************************************************)
\* CHAR_MAPS[style]: the style's categories; a key inherited from
\* Object.prototype yields a truthy object that has no category
NoCategories == [category \in {} |-> [c \in {} |-> 0]]

HasCharMap(style) == style \in (DOMAIN CHAR_MAPS) \cup PrototypeKeys

\* mutant: an identifier without a map of its own falls back to the bold map
CharMapOf_DefaultBold(style) ==
    IF style \in DOMAIN CHAR_MAPS THEN CHAR_MAPS[style] ELSE CHAR_MAPS["bold"]

CharMapOf(style) == IF style \in DOMAIN CHAR_MAPS THEN CHAR_MAPS[style] ELSE NoCategories

\* REVERSE_CHAR_MAPS[style], likewise
NoEntries == [styled \in {} |-> 0]

HasReverseMap(style) == style \in (DOMAIN REVERSE_CHAR_MAPS) \cup PrototypeKeys

\* mutant: the lookup always answers with the first style's reverse map
ReverseMapOf_FirstStyle(style) ==
    IF "bold" \in DOMAIN REVERSE_CHAR_MAPS THEN REVERSE_CHAR_MAPS["bold"] ELSE NoEntries

ReverseMapOf(style) ==
    IF style \in DOMAIN REVERSE_CHAR_MAPS THEN REVERSE_CHAR_MAPS[style] ELSE NoEntries

\* the callback of codePoints.map in applyStyle: the first category, in the
\* order upper, lower, digits, greekUpper, greekLower, that maps cp
StyledCodePoint(map, cp) ==
    IF "upper" \in DOMAIN map /\ cp \in DOMAIN map.upper THEN map.upper[cp]
    ELSE IF "lower" \in DOMAIN map /\ cp \in DOMAIN map.lower THEN map.lower[cp]
    ELSE IF "digits" \in DOMAIN map /\ cp \in DOMAIN map.digits THEN map.digits[cp]
    ELSE IF "greekUpper" \in DOMAIN map /\ cp \in DOMAIN map.greekUpper THEN map.greekUpper[cp]
    ELSE IF "greekLower" \in DOMAIN map /\ cp \in DOMAIN map.greekLower THEN map.greekLower[cp]
    ELSE cp

\* reverseMap[cp] || cp
PlainCodePoint(reverseMap, cp) == IF cp \in DOMAIN reverseMap THEN reverseMap[cp] ELSE cp

\* codePoints.some(cp => reverseMap[cp])
HasStyledCodePoint(reverseMap, g) == \E i \in 1..Len(g) : g[i] \in DOMAIN reverseMap

\* the callback of mapGraphemes for a combining-mark style in applyStyle
MarkCluster(cluster, mark) ==
    IF IsAllWhiteSpace(cluster) THEN cluster ELSE addStyleMark(cluster, mark)

\* mutant: the cluster is mapped without being decomposed first
SubstituteCluster_NoDecompose(cluster, map) ==
    normalizeNFC([i \in 1..Len(cluster) |-> StyledCodePoint(map, cluster[i])])

\* the callback of mapGraphemes for a substitution style in applyStyle
SubstituteCluster(cluster, map) ==
    LET decomposed == normalizeNFD(cluster)
        mapped == [i \in 1..Len(decomposed) |-> StyledCodePoint(map, decomposed[i])]
    IN  normalizeNFC(mapped)

\* mutant: the cluster is decomposed before the lookup, as applyStyle does
RevertCluster_Decomposed(cluster, reverseMap) ==
    LET decomposed == normalizeNFD(cluster)
    IN  [i \in 1..Len(decomposed) |-> PlainCodePoint(reverseMap, decomposed[i])]

\* the callback of mapGraphemes in removeStyle and toPlainText
RevertCluster(cluster, reverseMap) ==
    [i \in 1..Len(cluster) |-> PlainCodePoint(reverseMap, cluster[i])]

applyStyle(t, style) ==
    IF t = <<>> THEN t
    ELSE LET input == normalizeNFC(t)
         IN  IF style = "strikethrough"
             THEN normalizeNFC(mapGraphemes(input, [cluster \in Clusters |-> MarkCluster(cluster, STRIKETHROUGH)]))
             ELSE IF style = "underline"
             THEN normalizeNFC(mapGraphemes(input, [cluster \in Clusters |-> MarkCluster(cluster, UNDERLINE)]))
             ELSE IF ~HasCharMap(style) THEN input
             ELSE normalizeNFC(mapGraphemes(input,
                      [cluster \in Clusters |-> SubstituteCluster(cluster, CharMapOf(style))]))

removeStyle(t, style) ==
    IF t = <<>> THEN t
    ELSE LET input == normalizeNFC(t)
         IN  IF style = "strikethrough"
             THEN normalizeNFC(mapGraphemes(input, [cluster \in Clusters |-> removeStyleMark(cluster, STRIKETHROUGH)]))
             ELSE IF style = "underline"
             THEN normalizeNFC(mapGraphemes(input, [cluster \in Clusters |-> removeStyleMark(cluster, UNDERLINE)]))
             ELSE IF ~HasReverseMap(style) THEN input
             ELSE normalizeNFC(mapGraphemes(input,
                      [cluster \in Clusters |-> RevertCluster(cluster, ReverseMapOf(style))]))

\* the loop `for (const reverseMap of Object.values(REVERSE_CHAR_MAPS))`,
\* from the k-th style of the insertion order on
RECURSIVE RevertAllFrom(_, _)
RevertAllFrom(result, k) ==
    IF k > Len(StyleOrder) THEN result
    ELSE IF StyleOrder[k] \notin DOMAIN REVERSE_CHAR_MAPS THEN RevertAllFrom(result, k + 1)
    ELSE RevertAllFrom(
             mapGraphemes(result,
                 [cluster \in Clusters |-> RevertCluster(cluster, REVERSE_CHAR_MAPS[StyleOrder[k]])]),
             k + 1)

toPlainText(t) ==
    IF t = <<>> THEN t
    ELSE LET stripped == mapGraphemes(normalizeNFC(t), [cluster \in Clusters |-> stripStyleMarks(cluster)])
         IN  normalizeNFC(RevertAllFrom(stripped, 1))

\* the predicate of filterGraphemes in detectStyles
IsTestChar(c) == c # <<STRIKETHROUGH>> /\ c # <<UNDERLINE>> /\ HasNonWhiteSpace(c)

\* graphemes.filter(g => [...g].some(cp => reverseMap[cp])).length
StyledCount(graphemes, reverseMap) ==
    Cardinality({i \in 1..Len(graphemes) : HasStyledCodePoint(reverseMap, graphemes[i])})

\* the `detected` record as first built: all 11 flags false
AllFalse == [s \in StyleIds |-> FALSE]

\* segmentGraphemes(filterGraphemes(text, ...))
TestGraphemes(t) == segmentGraphemes(filterGraphemes(t, [c \in Clusters |-> IsTestChar(c)]))

\* mutant: the marks are looked for only after the early return for a text
\* without testable clusters
DetectedMarks_OnlyWhenTestable(t) ==
    IF Len(TestGraphemes(t)) = 0 THEN AllFalse
    ELSE [AllFalse EXCEPT !["strikethrough"] = Contains(t, STRIKETHROUGH),
                          !["underline"] = Contains(t, UNDERLINE)]

\* `detected` after the two text.includes(mark) checks
DetectedMarks(t) ==
    [AllFalse EXCEPT !["strikethrough"] = Contains(t, STRIKETHROUGH),
                     !["underline"] = Contains(t, UNDERLINE)]

\* mutant: one styled cluster is enough, whatever the size of the text
MeetsThreshold_AnyStyled(styledCount, total) == styledCount > 0

\* styledCount > 0 && styledCount >= graphemes.length * 0.5
MeetsThreshold(styledCount, total) == styledCount > 0 /\ 2 * styledCount >= total

detectStyles(t) ==
    IF t = <<>> THEN AllFalse
    ELSE LET detected == DetectedMarks(t)
             graphemes == TestGraphemes(t)
         IN  IF Len(graphemes) = 0 THEN detected
             ELSE [s \in StyleIds |->
                     IF s \in DOMAIN REVERSE_CHAR_MAPS
                     THEN MeetsThreshold(StyledCount(graphemes, REVERSE_CHAR_MAPS[s]),
                                         Len(graphemes))
                     ELSE detected[s]]

\* mutant: a strict majority is required
AtLeastHalf_Strict(styledCount, total) == 2 * styledCount > total

\* styledCount >= testable.length * 0.5
AtLeastHalf(styledCount, total) == 2 * styledCount >= total

isStyledWith(t, style) ==
    IF t = <<>> THEN FALSE
    ELSE IF style = "strikethrough" THEN Contains(t, STRIKETHROUGH)
    ELSE IF style = "underline" THEN Contains(t, UNDERLINE)
    ELSE IF ~HasReverseMap(style) THEN FALSE
    ELSE LET reverseMap == ReverseMapOf(style)
             testable == SelectSeq(segmentGraphemes(t),
                             LAMBDA g : HasAsciiAlphanumeric(g) \/ HasStyledCodePoint(reverseMap, g))
         IN  IF Len(testable) = 0 THEN FALSE
             ELSE AtLeastHalf(StyledCount(testable, reverseMap), Len(testable))

\* STYLE_COMPONENTS and the component arithmetic of toggleStyle
FamilyStyles == {"bold", "italic", "boldItalic"}

CurrentComponents(detected) ==
    IF detected["boldItalic"] THEN [bold |-> TRUE, italic |-> TRUE]
    ELSE IF detected["bold"] THEN [bold |-> TRUE, italic |-> FALSE]
    ELSE IF detected["italic"] THEN [bold |-> FALSE, italic |-> TRUE]
    ELSE [bold |-> FALSE, italic |-> FALSE]

\* STYLE_COMPONENTS[style] is truthy for the three family styles and for a key
\* inherited from Object.prototype
HasStyleComponents(style) == style \in FamilyStyles \cup PrototypeKeys

\* mutant: the requested component is switched on, never off
ToggledComponents_OnOnly(detected, style) ==
    LET current == CurrentComponents(detected)
    IN  IF style = "bold" THEN [current EXCEPT !.bold = TRUE]
        ELSE IF style = "italic" THEN [current EXCEPT !.italic = TRUE]
        ELSE IF style = "boldItalic"
        THEN IF detected["boldItalic"] THEN [bold |-> FALSE, italic |-> FALSE]
             ELSE [bold |-> TRUE, italic |-> TRUE]
        ELSE current

\* mutant: boldItalic flips each of the two components
ToggledComponents_FlipBoth(detected, style) ==
    LET current == CurrentComponents(detected)
    IN  IF style = "bold" THEN [current EXCEPT !.bold = ~current.bold]
        ELSE IF style = "italic" THEN [current EXCEPT !.italic = ~current.italic]
        ELSE IF style = "boldItalic"
        THEN [bold |-> ~current.bold, italic |-> ~current.italic]
        ELSE current

ToggledComponents(detected, style) ==
    LET current == CurrentComponents(detected)
    IN  IF style = "bold" THEN [current EXCEPT !.bold = ~current.bold]
        ELSE IF style = "italic" THEN [current EXCEPT !.italic = ~current.italic]
        ELSE IF style = "boldItalic"
        THEN IF detected["boldItalic"] THEN [bold |-> FALSE, italic |-> FALSE]
             ELSE [bold |-> TRUE, italic |-> TRUE]
        ELSE current

\* newStyle, "none" for null
NewStyle(components) ==
    IF components.bold /\ components.italic THEN "boldItalic"
    ELSE IF components.bold THEN "bold"
    ELSE IF components.italic THEN "italic"
    ELSE "none"

\* mutant: an exclusive style is applied again instead of being removed
ToggleExclusive_NoRemove(t, style) == applyStyle(toPlainText(t), style)

\* mutant: an exclusive style is removed through toPlainText
ToggleExclusive_PlainOnRemove(t, style) ==
    IF isStyledWith(t, style) THEN toPlainText(t)
    ELSE applyStyle(toPlainText(t), style)

\* the last branch of toggleStyle: the exclusive styles
ToggleExclusive(t, style) ==
    IF isStyledWith(t, style) THEN removeStyle(t, style)
    ELSE applyStyle(toPlainText(t), style)

toggleStyle(t, style) ==
    LET detected == detectStyles(t)
    IN  IF style = "strikethrough"
        THEN IF detected["strikethrough"] THEN removeStyle(t, "strikethrough")
             ELSE applyStyle(t, "strikethrough")
        ELSE IF style = "underline"
        THEN IF detected["underline"] THEN removeStyle(t, "underline")
             ELSE applyStyle(t, "underline")
        ELSE IF HasStyleComponents(style)
        THEN LET plain == toPlainText(t)
                 newStyle == NewStyle(ToggledComponents(detected, style))
             IN  IF newStyle # "none" THEN applyStyle(plain, newStyle) ELSE plain
        ELSE ToggleExclusive(t, style)

(***************************************************************************)
(* The engine in use: a caller holds a text and calls the public API on    *)
(* it.  A transforming call replaces the text by its result and is         *)
(* recorded with its input and output; a detection call leaves the text    *)
(* alone and its result is kept until the next call.                       *)
(***************************************************************************)
AllStyleArgs == StyleIds \cup UnknownStyles

NoQuery == [op |-> "none"]

\* whether initializeReverseMaps has run
MapsReady == REVERSE_CHAR_MAPS # EmptyReverseMaps

\* reverse-maps.js:104-112 at module load: the table is built at once when
\* char-maps.js is already loaded, and stays {} until the load event otherwise
InitMaps == REVERSE_CHAR_MAPS \in {EmptyReverseMaps, BuiltReverseMaps}

InitLoaded == REVERSE_CHAR_MAPS = BuiltReverseMaps

Recorded(op, style, out) ==
    /\ calls' = Append(calls, [op |-> op, style |-> style, in |-> text, out |-> out,
                               ready |-> MapsReady])
    /\ text' = out
    /\ query' = NoQuery
    /\ UNCHANGED <<REVERSE_CHAR_MAPS, aiVars, contentVars>>

\* REVERSE_CHAR_MAPS = buildReverseMaps(window.UnicodeCharMaps.CHAR_MAPS)
InitializeReverseMaps ==
    /\ REVERSE_CHAR_MAPS' = BuiltReverseMaps
    /\ query' = NoQuery
    /\ UNCHANGED <<text, calls, aiVars, contentVars>>

ApplyStyle(style) == Recorded("applyStyle", style, applyStyle(text, style))

RemoveStyle(style) == Recorded("removeStyle", style, removeStyle(text, style))

ToggleStyle(style) == Recorded("toggleStyle", style, toggleStyle(text, style))

ToPlainText == Recorded("toPlainText", "none", toPlainText(text))

DetectStyles ==
    /\ query' = [op |-> "detectStyles", style |-> "none", value |-> detectStyles(text),
                 ready |-> MapsReady]
    /\ UNCHANGED <<REVERSE_CHAR_MAPS, text, calls, aiVars, contentVars>>

IsStyledWith(style) ==
    /\ query' = [op |-> "isStyledWith", style |-> style, value |-> isStyledWith(text, style),
                 ready |-> MapsReady]
    /\ UNCHANGED <<REVERSE_CHAR_MAPS, text, calls, aiVars, contentVars>>

(***************************************************************************)
(* Detection scenario: any text, one detection call at a time, before or   *)
(* after the reverse maps are built.                                       *)
(***************************************************************************)
\* bold a, b, LF, U+0301: thresholds, clusters around a line break
DetectCharsA == {120302, 98, 10, 769}
\* bold a, b, '!', U+0336: marks, letters against punctuation
DetectCharsB == {120302, 98, 33, 822}
\* bold a, italic a, A, space: several styles in one text
DetectCharsC == {120302, 120354, 65, 32}

DetectTexts ==
    SeqsUpTo(DetectCharsA, MaxDetectLen) \cup SeqsUpTo(DetectCharsB, MaxDetectLen)
        \cup SeqsUpTo(DetectCharsC, MaxDetectLen)

Init ==
    /\ InitAIService
    /\ InitContentScript
    /\ InitMaps
    /\ text \in DetectTexts
    /\ calls = <<>>
    /\ query = NoQuery

Next ==
    \/ InitializeReverseMaps
    \/ DetectStyles
    \/ \E style \in AllStyleArgs : IsStyledWith(style)

Spec == Init /\ [][Next]_vars

(***************************************************************************)
(* Toggle scenario: the reverse maps are built, the caller draws any text  *)
(* and toggles one style on it repeatedly.                                 *)
(***************************************************************************)
\* a, 1, '!', bold a, italic a, bold italic a
FamilyChars == {97, 49, 33, 120302, 120354, 120406}
\* a, A, 1, '!', space, alpha: plain characters
PlainChars == {97, 65, 49, 33, 32, 945}
\* e, space, line feed, U+0336, U+0332, U+0301: marks, an accent that composes
\* with e
MarkChars == {101, 32, 10, 822, 818, 769}

\* a, bold a, script a, U+0336, U+0332: letters of both families under marks
LayeredChars == {97, 120302, 120042, 822, 818}

ToggleTexts ==
    SeqsUpTo(FamilyChars, MaxLen) \cup SeqsUpTo(PlainChars, MaxLen)
        \cup SeqsUpTo(MarkChars, MaxLen) \cup SeqsUpTo(LayeredChars, MaxLen)

InitToggle ==
    /\ InitAIService
    /\ InitContentScript
    /\ InitLoaded
    /\ text \in ToggleTexts
    /\ calls = <<>>
    /\ query = NoQuery

NextToggle ==
    \E style \in AllStyleArgs :
        /\ Len(calls) < MaxToggles
        /\ calls # <<>> => style = calls[1].style
        /\ ToggleStyle(style)

SpecToggle == InitToggle /\ [][NextToggle]_vars

(***************************************************************************)
(* Round-trip scenario: the reverse maps are built, the caller draws a     *)
(* plain text, applies styles one after the other (at most one             *)
(* substitution style, each style once) and then asks for the plain text.  *)
(***************************************************************************)
\* A, q, 0, Sigma, final sigma, alpha with tonos, space, line feed
RoundTripChars == {65, 113, 48, 931, 962, 940, 32, 10}

\* every ASCII character and every Greek letter of the maps
PlainCharacters == (0..127) \cup (913..929) \cup (931..937) \cup (945..969)

\* every plain character on its own, and the texts over the sample
RoundTripTexts ==
    {<<c>> : c \in PlainCharacters} \cup SeqsUpTo(RoundTripChars, MaxPlainLen)

Applied == {calls[i].style : i \in 1..Len(calls)}

InitRoundTrip ==
    /\ InitAIService
    /\ InitContentScript
    /\ InitLoaded
    /\ text \in RoundTripTexts
    /\ calls = <<>>
    /\ query = NoQuery

NextRoundTrip ==
    \/ \E style \in StyleIds :
           /\ Len(calls) + 1 < MaxCalls
           /\ "none" \notin Applied
           /\ style \notin Applied
           /\ style \in SubstitutionStyles => Applied \cap SubstitutionStyles = {}
           /\ ApplyStyle(style)
    \/ /\ calls # <<>>
       /\ "none" \notin Applied
       /\ ToPlainText

SpecRoundTrip == InitRoundTrip /\ [][NextRoundTrip]_vars

(***************************************************************************)
(* Edit scenario: any text, possibly not normalized, and calls of          *)
(* applyStyle and removeStyle with one style argument, before or after the *)
(* reverse maps are built.                                                 *)
(***************************************************************************)
\* e, U+0301, bold a, U+0336
EditChars == {101, 769, 120302, 822}

\* e, space, line feed, zero width space U+200B, U+0336
SpacingChars == {101, 32, 10, 8203, 822}

\* q, A, Sigma, U+0332, U+0336: plain letters that carry the managed marks
CarryChars == {113, 65, 931, 818, 822}

EditTexts ==
    SeqsUpTo(EditChars, MaxLen) \cup SeqsUpTo(SpacingChars, MaxLen)
        \cup SeqsUpTo(CarryChars, MaxLen)

InitEdit ==
    /\ InitAIService
    /\ InitContentScript
    /\ InitMaps
    /\ text \in EditTexts
    /\ calls = <<>>
    /\ query = NoQuery

NextEdit ==
    \/ InitializeReverseMaps
    \/ \E style \in AllStyleArgs :
           /\ Len(calls) < MaxEdits
           /\ calls # <<>> => style = calls[1].style
           /\ ApplyStyle(style)
    \/ \E style \in AllStyleArgs :
           /\ Len(calls) < MaxEdits
           /\ calls # <<>> => style = calls[1].style
           /\ RemoveStyle(style)

SpecEdit == InitEdit /\ [][NextEdit]_vars

(***************************************************************************)
(* Combining-mark scenario: the functions of window.UnicodeCombiningMarks  *)
(* called on any string, one after the other on the result.  A mark is     *)
(* named by its style.                                                     *)
(***************************************************************************)
\* e, space, U+0301, U+0336, U+0332
ClusterChars == {101, 32, 769, 822, 818}

ClusterTexts == SeqsUpTo(ClusterChars, MaxLen)

\* CombiningMarks.STRIKETHROUGH, CombiningMarks.UNDERLINE
MarkNamed(style) == IF style = "strikethrough" THEN STRIKETHROUGH ELSE UNDERLINE

AddStyleMark(style) ==
    Recorded("addStyleMark", style, addStyleMark(text, MarkNamed(style)))

RemoveStyleMark(style) ==
    Recorded("removeStyleMark", style, removeStyleMark(text, MarkNamed(style)))

StripStyleMarks == Recorded("stripStyleMarks", "none", stripStyleMarks(text))

InitMarks ==
    /\ InitAIService
    /\ InitContentScript
    /\ InitLoaded
    /\ text \in ClusterTexts
    /\ calls = <<>>
    /\ query = NoQuery

NextMarks ==
    \/ \E style \in MarkStyles : Len(calls) < MaxMarkCalls /\ AddStyleMark(style)
    \/ \E style \in MarkStyles : Len(calls) < MaxMarkCalls /\ RemoveStyleMark(style)
    \/ Len(calls) < MaxMarkCalls /\ StripStyleMarks

SpecMarks == InitMarks /\ [][NextMarks]_vars

(***************************************************************************)
(* Late-initialization scenario: char-maps.js was not loaded when          *)
(* reverse-maps.js ran, so the table starts empty; the engine is used      *)
(* before and after initializeReverseMaps runs.                            *)
(***************************************************************************)
\* e, U+0301, bold a, U+0336
EarlyChars == {101, 769, 120302, 822}

EarlyTexts == SeqsUpTo(EarlyChars, MaxPlainLen)

InitEarly ==
    /\ InitAIService
    /\ InitContentScript
    /\ REVERSE_CHAR_MAPS = EmptyReverseMaps
    /\ text \in EarlyTexts
    /\ calls = <<>>
    /\ query = NoQuery

NextEarly ==
    \/ InitializeReverseMaps
    \/ \E style \in AllStyleArgs : Len(calls) < MaxEarlyCalls /\ RemoveStyle(style)
    \/ Len(calls) < MaxEarlyCalls /\ ToPlainText
    \/ DetectStyles
    \/ \E style \in AllStyleArgs : IsStyledWith(style)

SpecEarly == InitEarly /\ [][NextEarly]_vars

(***************************************************************************)
(* Plain-text scenario: the reverse maps are built and toPlainText is      *)
(* called on any text, styled in several styles or not, and again on its   *)
(* result.                                                                 *)
(***************************************************************************)
\* A, o, bold a, bold o, small capital a, U+01EB (small capital of q),
\* U+0328 ogonek, U+0336, circled 0
MixedChars == {65, 111, 120302, 120316, 7424, 491, 808, 822, 9450}

MixedTexts == SeqsUpTo(MixedChars, MaxLen)

InitPlain ==
    /\ InitAIService
    /\ InitContentScript
    /\ InitLoaded
    /\ text \in MixedTexts
    /\ calls = <<>>
    /\ query = NoQuery

NextPlain == Len(calls) < MaxPlainCalls /\ ToPlainText

SpecPlain == InitPlain /\ [][NextPlain]_vars

(***************************************************************************)
(* Properties of detection (checked under Spec).                           *)
(***************************************************************************)
MarkOf(style) == IF style = "strikethrough" THEN STRIKETHROUGH ELSE UNDERLINE

\* the positions, among the clusters of t, of the clusters that are neither
\* all-whitespace nor a bare managed mark
TestablePositions(t) ==
    LET g == segmentGraphemes(t)
    IN  {i \in 1..Len(g) : ~IsAllWhiteSpace(g[i]) /\ g[i] \notin {<<STRIKETHROUGH>>, <<UNDERLINE>>}}

\* the testable clusters of t with a code point of the style's reverse map
StyledPositions(t, style) ==
    LET g == segmentGraphemes(t)
    IN  {i \in TestablePositions(t) : \E k \in 1..Len(g[i]) : g[i][k] \in DOMAIN ReverseMapOf(style)}

HalfOrMore(t, style) ==
    /\ StyledPositions(t, style) # {}
    /\ 2 * Cardinality(StyledPositions(t, style)) >= Cardinality(TestablePositions(t))

\* C7: detectStyles(text)[s] is true, for a substitution style s, iff among the
\* clusters of the text that are neither all-whitespace nor a bare managed mark
\* the clusters with a code point of s's reverse map are at least one and at
\* least half; for a mark style iff the mark occurs in the text.
C7_DetectThreshold ==
    query.op = "detectStyles" =>
        \A s \in StyleIds :
            query.value[s] = IF s \in MarkStyles THEN Contains(text, MarkOf(s))
                             ELSE HalfOrMore(text, s)

\* C8 as stated: detectStyles returns exactly the 11 keys, and all 11 flags
\* are false when the text is empty or has no testable cluster.
C8_AllFalseWithoutTestable ==
    query.op = "detectStyles" =>
        /\ DOMAIN query.value = StyleIds
        /\ (text = <<>> \/ TestablePositions(text) = {}) =>
               \A s \in StyleIds : ~query.value[s]

\* C8 amended: detectStyles returns exactly the 11 keys; when the text is empty
\* or has no testable cluster the 9 substitution flags are false and each mark
\* flag is true exactly when the text contains that mark.
C8_SubstitutionFalseWithoutTestable ==
    query.op = "detectStyles" =>
        /\ DOMAIN query.value = StyleIds
        /\ (text = <<>> \/ TestablePositions(text) = {}) =>
               /\ \A s \in SubstitutionStyles : ~query.value[s]
               /\ \A m \in MarkStyles : query.value[m] = Contains(text, MarkOf(m))

\* a text of bare marks only has been examined and reports its mark
C8_Witness ==
    /\ query.op = "detectStyles"
    /\ query.ready
    /\ text # <<>>
    /\ TestablePositions(text) = {}
    /\ query.value["strikethrough"]
    /\ ~query.value["bold"]

\* the clusters isStyledWith tests: those with an ASCII letter or digit or
\* with a code point of the style's reverse map
AlnumOrStyledPositions(t, style) ==
    LET g == segmentGraphemes(t)
    IN  {i \in 1..Len(g) :
            \E k \in 1..Len(g[i]) :
                \/ g[i][k] \in (48..57) \cup (65..90) \cup (97..122)
                \/ g[i][k] \in DOMAIN ReverseMapOf(style)}

StyledAmong(t, style) ==
    LET g == segmentGraphemes(t)
    IN  {i \in 1..Len(g) : \E k \in 1..Len(g[i]) : g[i][k] \in DOMAIN ReverseMapOf(style)}

\* C9: isStyledWith(text, s) for a substitution style is true iff the testable
\* set is non-empty and at least half of it has a code point of s's reverse
\* map; false for the empty text and for a style outside the 11; for a mark
\* style true iff the mark occurs in the text.
C9_IsStyledWithThreshold ==
    query.op = "isStyledWith" =>
        query.value =
            IF text = <<>> THEN FALSE
            ELSE IF query.style \in MarkStyles THEN Contains(text, MarkOf(query.style))
            ELSE IF query.style \notin StyleIds THEN FALSE
            ELSE /\ AlnumOrStyledPositions(text, query.style) # {}
                 /\ 2 * Cardinality(StyledAmong(text, query.style))
                        >= Cardinality(AlnumOrStyledPositions(text, query.style))

\* exactly half of the testable set is bold, and a punctuation cluster that
\* detectStyles would count is left out of it
C9_Witness ==
    /\ query.op = "isStyledWith"
    /\ query.style = "bold"
    /\ query.value
    /\ Cardinality(AlnumOrStyledPositions(text, "bold")) = 2
    /\ Cardinality(StyledAmong(text, "bold")) = 1
    /\ Contains(text, 33)

(***************************************************************************)
(* Properties of toggleStyle (checked under SpecToggle).                   *)
(***************************************************************************)
\* the family state read from detectStyles
FamilyState(t) ==
    LET detected == detectStyles(t)
    IN  IF detected["boldItalic"] THEN "BoldItalic"
        ELSE IF detected["bold"] THEN "Bold"
        ELSE IF detected["italic"] THEN "Italic"
        ELSE "Plain"

\* the transitions of the state machine: toggle(bold) Plain<->Bold and
\* Italic<->BoldItalic, toggle(italic) Plain<->Italic and Bold<->BoldItalic
Moved(state, style) ==
    IF style = "bold"
    THEN CASE state = "Plain" -> "Bold"
           [] state = "Bold" -> "Plain"
           [] state = "Italic" -> "BoldItalic"
           [] state = "BoldItalic" -> "Italic"
    ELSE CASE state = "Plain" -> "Italic"
           [] state = "Italic" -> "Plain"
           [] state = "Bold" -> "BoldItalic"
           [] state = "BoldItalic" -> "Bold"

\* the letters that bold, italic and boldItalic all map
FamilyLetters ==
    (65..90) \cup (97..122) \cup (913..929) \cup (931..937) \cup (945..969)

\* at least one testable cluster of the plain form of t, and at least half of
\* them, hold one of the letters
MostlyLetters(t) ==
    LET plain == toPlainText(t)
        g == segmentGraphemes(plain)
        withLetter == {i \in TestablePositions(plain) :
                          \E k \in 1..Len(g[i]) : g[i][k] \in FamilyLetters}
    IN  /\ withLetter # {}
        /\ 2 * Cardinality(withLetter) >= Cardinality(TestablePositions(plain))

\* C3 as stated: for any non-empty text, toggleStyle with bold or italic moves
\* the detected family state along the transitions of the state machine.
C3_FamilyTransitions ==
    \A i \in 1..Len(calls) :
        (calls[i].style \in {"bold", "italic"} /\ calls[i].in # <<>>) =>
            FamilyState(calls[i].out) = Moved(FamilyState(calls[i].in), calls[i].style)

\* C3 amended: with the reverse maps built, for any text whose plain form has
\* a letter (A-Z, a-z, Greek) in at least half of its non-whitespace clusters,
\* toggleStyle with bold or italic moves the detected family state along the
\* transitions, so toggling the same style twice returns to the starting state.
C3_FamilyTransitionsOnLetters ==
    \A i \in 1..Len(calls) :
        (calls[i].style \in {"bold", "italic"} /\ MostlyLetters(calls[i].in)) =>
            /\ FamilyState(calls[i].out) = Moved(FamilyState(calls[i].in), calls[i].style)
            /\ i > 1 => FamilyState(calls[i].out) = FamilyState(calls[i - 1].in)

\* italic toggled twice on a bold text: Bold -> BoldItalic -> Bold
C3_Witness ==
    /\ Len(calls) = 2
    /\ calls[1].style = "italic"
    /\ MostlyLetters(calls[1].in)
    /\ FamilyState(calls[1].in) = "Bold"
    /\ FamilyState(calls[1].out) = "BoldItalic"
    /\ FamilyState(calls[2].out) = "Bold"

\* C4 as stated: toggleStyle(text, 'boldItalic') gives the plain text when the
\* text is detected as boldItalic, and from every other detected state a text
\* detected as boldItalic with bold and italic false.
C4_ToggleBoldItalic ==
    \A i \in 1..Len(calls) :
        calls[i].style = "boldItalic" =>
            IF detectStyles(calls[i].in)["boldItalic"]
            THEN /\ calls[i].out = toPlainText(calls[i].in)
                 /\ FamilyState(calls[i].out) = "Plain"
            ELSE /\ detectStyles(calls[i].out)["boldItalic"]
                 /\ ~detectStyles(calls[i].out)["bold"]
                 /\ ~detectStyles(calls[i].out)["italic"]

\* C4 amended: the same, where the second half is claimed for the texts whose
\* plain form has a letter in at least half of its non-whitespace clusters.
C4_ToggleBoldItalicOnLetters ==
    \A i \in 1..Len(calls) :
        calls[i].style = "boldItalic" =>
            IF detectStyles(calls[i].in)["boldItalic"]
            THEN /\ calls[i].out = toPlainText(calls[i].in)
                 /\ FamilyState(calls[i].out) = "Plain"
            ELSE MostlyLetters(calls[i].in) =>
                     /\ detectStyles(calls[i].out)["boldItalic"]
                     /\ ~detectStyles(calls[i].out)["bold"]
                     /\ ~detectStyles(calls[i].out)["italic"]

\* boldItalic toggled on a bold text and then off again
C4_Witness ==
    /\ Len(calls) = 2
    /\ calls[1].style = "boldItalic"
    /\ FamilyState(calls[1].in) = "Bold"
    /\ FamilyState(calls[1].out) = "BoldItalic"
    /\ calls[2].out = toPlainText(calls[1].in)
    /\ FamilyState(calls[2].out) = "Plain"

ExclusiveStyles == SubstitutionStyles \ FamilyStyles

\* a non-empty text of ASCII characters only
IsPlainAscii(t) == t # <<>> /\ \A i \in 1..Len(t) : t[i] < 128

\* the code points a style maps
MappedBy(style) ==
    UNION {DOMAIN CHAR_MAPS[style][category] : category \in DOMAIN CHAR_MAPS[style]}

\* at least one cluster of t with an ASCII letter or digit, and at least half
\* of them, hold a character that the style maps
MostlyMapped(t, style) ==
    LET g == segmentGraphemes(t)
        alnum == {i \in 1..Len(g) : HasAsciiAlphanumeric(g[i])}
        mapped == {i \in alnum : \E k \in 1..Len(g[i]) : g[i][k] \in MappedBy(style)}
    IN  mapped # {} /\ 2 * Cardinality(mapped) >= Cardinality(alnum)

\* C5 as stated: for an exclusive style s and a non-empty plain text t, the
\* first toggle gives a text styled with s and the second a text not styled
\* with s.
C5_ExclusiveAlternates ==
    (calls # <<>> /\ calls[1].style \in ExclusiveStyles /\ IsPlainAscii(calls[1].in)) =>
        /\ isStyledWith(calls[1].out, calls[1].style)
        /\ Len(calls) >= 2 => ~isStyledWith(calls[2].out, calls[1].style)

\* C5 amended: for an exclusive style s and a non-empty plain text t in which
\* at least half of the clusters with an ASCII letter or digit hold a character
\* that s maps, the first toggle gives a text styled with s; the second toggle
\* gives t back, which is not styled with s unless t itself already was, and
\* that happens for smallCaps only.
C5_ExclusiveAlternatesOnMapped ==
    (/\ calls # <<>>
     /\ calls[1].style \in ExclusiveStyles
     /\ IsPlainAscii(calls[1].in)
     /\ MostlyMapped(calls[1].in, calls[1].style)) =>
        /\ isStyledWith(calls[1].out, calls[1].style)
        /\ isStyledWith(calls[1].in, calls[1].style) => calls[1].style = "smallCaps"
        /\ Len(calls) >= 2 =>
               /\ calls[2].out = calls[1].in
               /\ isStyledWith(calls[2].out, calls[1].style)
                      = isStyledWith(calls[1].in, calls[1].style)

\* script toggled on and off on a text with a letter and a digit
C5_Witness ==
    /\ Len(calls) = 2
    /\ calls[1].style = "script"
    /\ IsPlainAscii(calls[1].in)
    /\ Contains(calls[1].in, 49)
    /\ isStyledWith(calls[1].out, "script")
    /\ calls[1].out # calls[1].in
    /\ ~isStyledWith(calls[2].out, "script")

HasMarkableCluster(t) ==
    LET g == segmentGraphemes(t)
    IN  \E i \in 1..Len(g) : ~IsAllWhiteSpace(g[i])

\* C6 as stated: for a mark style m and any text t without m's mark, the first
\* toggle applies the mark and the second toggle gives t back.
C6_MarkToggleInvolution ==
    (calls # <<>> /\ calls[1].style \in MarkStyles
        /\ ~Contains(calls[1].in, MarkOf(calls[1].style))) =>
        /\ Contains(calls[1].out, MarkOf(calls[1].style))
        /\ Len(calls) >= 2 => calls[2].out = calls[1].in

\* C6 amended: for a mark style m and any NFC-normalized text t without m's
\* mark that has a cluster which is not all whitespace, the first toggle
\* applies the mark and the second toggle gives t back.
C6_MarkToggleInvolutionOnNFC ==
    (/\ calls # <<>>
     /\ calls[1].style \in MarkStyles
     /\ ~Contains(calls[1].in, MarkOf(calls[1].style))
     /\ normalizeNFC(calls[1].in) = calls[1].in
     /\ HasMarkableCluster(calls[1].in)) =>
        /\ Contains(calls[1].out, MarkOf(calls[1].style))
        /\ Len(calls) >= 2 => calls[2].out = calls[1].in

\* strikethrough toggled on and off on an underlined text with a space
C6_Witness ==
    /\ Len(calls) = 2
    /\ calls[1].style = "strikethrough"
    /\ Contains(calls[1].in, UNDERLINE)
    /\ Contains(calls[1].in, 32)
    /\ normalizeNFC(calls[1].in) = calls[1].in
    /\ Contains(calls[1].out, STRIKETHROUGH)
    /\ calls[2].out = calls[1].in

(***************************************************************************)
(* Round-trip properties (checked under SpecRoundTrip).                    *)
(***************************************************************************)
Finished == calls # <<>> /\ calls[Len(calls)].op = "toPlainText"

\* C1: with the reverse maps built, for every plain NFC text t over ASCII and
\* the Greek letters and every substitution style s,
\* toPlainText(applyStyle(t, s)) = t.
C1_RoundTrip ==
    (/\ Len(calls) = 2
     /\ Finished
     /\ calls[1].style \in SubstitutionStyles) =>
        calls[2].out = calls[1].in

\* smallCaps on a text with q, whose small capital has a decomposition
C1_Witness ==
    /\ Len(calls) = 2
    /\ Finished
    /\ calls[1].style = "smallCaps"
    /\ Contains(calls[1].in, 113)
    /\ Contains(calls[1].out, 491)
    /\ calls[2].out = calls[1].in

\* C2: for plain text t, one substitution style and one or both of the mark
\* styles applied with applyStyle in any order, then toPlainText once, gives
\* exactly t.
C2_MultiStyleRoundTrip ==
    (/\ Len(calls) >= 3
     /\ Finished
     /\ Applied \cap SubstitutionStyles # {}) =>
        calls[Len(calls)].out = calls[1].in

\* underline, bold, strikethrough in that order on an accented Greek letter
\* next to a space
C2_Witness ==
    /\ Len(calls) = 4
    /\ Finished
    /\ calls[1].style = "underline"
    /\ calls[2].style = "bold"
    /\ calls[3].style = "strikethrough"
    /\ Contains(calls[1].in, 940)
    /\ Contains(calls[1].in, 32)
    /\ Contains(calls[3].out, STRIKETHROUGH)
    /\ Contains(calls[3].out, UNDERLINE)
    /\ calls[4].out = calls[1].in

(***************************************************************************)
(* Properties of applyStyle and removeStyle (checked under SpecEdit).      *)
(***************************************************************************)
\* C10: applyStyle and removeStyle return the empty text for the empty text,
\* and for a style identifier outside the 11 styles they return the
\* NFC-normalized input.
C10_EmptyOrUnknownUnchanged ==
    \A i \in 1..Len(calls) :
        calls[i].op \in {"applyStyle", "removeStyle"} =>
            /\ calls[i].in = <<>> => calls[i].out = <<>>
            /\ calls[i].style \notin StyleIds => calls[i].out = normalizeNFC(calls[i].in)

\* both operations called with the inherited key "constructor" on a styled
\* text that is not normalized
C10_Witness ==
    /\ Len(calls) = 2
    /\ calls[1].op = "applyStyle"
    /\ calls[2].op = "removeStyle"
    /\ calls[1].style = "constructor"
    /\ Contains(calls[1].in, 120302)
    /\ normalizeNFC(calls[1].in) # calls[1].in
    /\ calls[2].out = normalizeNFC(calls[1].in)

(***************************************************************************)
(* toggleStyle with an identifier outside the 11 styles (SpecToggle).      *)
(***************************************************************************)
\* C11: toggleStyle with a style identifier outside the 11 defined styles
\* returns the input text unchanged (normalized to NFC at most), whatever
\* styling the text carries.
C11_UnknownToggleIdentity ==
    \A i \in 1..Len(calls) :
        (calls[i].op = "toggleStyle" /\ calls[i].style \notin StyleIds) =>
            calls[i].out \in {calls[i].in, normalizeNFC(calls[i].in)}

(***************************************************************************)
(* Combining-mark styles in applyStyle (checked under SpecEdit).           *)
(***************************************************************************)
Count(s, x) == Cardinality({i \in 1..Len(s) : s[i] = x})

\* no cluster of t holds the mark more than once
MarkedAtMostOnce(t, mark) ==
    LET g == segmentGraphemes(t)
    IN  \A k \in 1..Len(g) : Count(g[k], mark) <= 1

\* C12, for the texts in which no cluster holds m's mark twice: after
\* applyStyle(t, m) every cluster of t that is not entirely whitespace carries
\* m's mark exactly once, every all-whitespace cluster is returned without a
\* mark, and applying the same mark style a second time changes nothing.
C12_WhitespaceSkip ==
    \A i \in 1..Len(calls) :
        (/\ calls[i].op = "applyStyle"
         /\ calls[i].style \in MarkStyles
         /\ MarkedAtMostOnce(calls[i].in, MarkOf(calls[i].style))) =>
            LET g == segmentGraphemes(calls[i].in)
                h == segmentGraphemes(calls[i].out)
            IN  /\ Len(h) = Len(g)
                /\ \A k \in 1..Len(g) :
                       IF IsAllWhiteSpace(g[k]) THEN h[k] = g[k]
                       ELSE Count(h[k], MarkOf(calls[i].style)) = 1
                /\ (i < Len(calls) /\ calls[i + 1].op = "applyStyle") =>
                       calls[i + 1].out = calls[i].out

(***************************************************************************)
(* Properties of the combining-mark functions (checked under SpecMarks).   *)
(***************************************************************************)
\* C13: addStyleMark returns an empty cluster unchanged, returns the cluster
\* unchanged when the mark is already anywhere in it, appends the mark at the
\* end otherwise, and adding the same mark again changes nothing.
C13_AddMarkIdempotent ==
    \A i \in 1..Len(calls) :
        calls[i].op = "addStyleMark" =>
            LET c == calls[i].in
                m == MarkOf(calls[i].style)
            IN  /\ calls[i].out =
                       IF c = <<>> \/ Count(c, m) > 0 THEN c ELSE c \o <<m>>
                /\ (/\ i < Len(calls)
                    /\ calls[i + 1].op = "addStyleMark"
                    /\ calls[i + 1].style = calls[i].style) =>
                       calls[i + 1].out = calls[i].out

\* strikethrough added twice to a cluster with an accent and an underline
C13_Witness ==
    /\ Len(calls) = 2
    /\ calls[1].op = "addStyleMark" /\ calls[2].op = "addStyleMark"
    /\ calls[1].style = "strikethrough" /\ calls[2].style = "strikethrough"
    /\ Contains(calls[1].in, 769)
    /\ Contains(calls[1].in, UNDERLINE)
    /\ ~Contains(calls[1].in, STRIKETHROUGH)
    /\ calls[1].out = Append(calls[1].in, STRIKETHROUGH)
    /\ calls[2].out = calls[1].out

\* s without the elements of the set gone, the others in order
RECURSIVE Without(_, _)
Without(s, gone) ==
    IF s = <<>> THEN <<>>
    ELSE IF Head(s) \in gone THEN Without(Tail(s), gone)
    ELSE <<Head(s)>> \o Without(Tail(s), gone)

\* C14: removeStyleMark(c, m) deletes every occurrence of m and leaves every
\* other code point of c unchanged and in order; stripStyleMarks deletes
\* exactly U+0336 and U+0332 and nothing else.
C14_MarkRemovalFrame ==
    \A i \in 1..Len(calls) :
        /\ calls[i].op = "removeStyleMark" =>
               /\ calls[i].out = Without(calls[i].in, {MarkOf(calls[i].style)})
               /\ Count(calls[i].out, MarkOf(calls[i].style)) = 0
        /\ calls[i].op = "stripStyleMarks" =>
               /\ calls[i].out = Without(calls[i].in, {822, 818})
               /\ Count(calls[i].out, 769) = Count(calls[i].in, 769)

\* the strikethrough removed from a string that holds it twice next to an
\* underline, then both managed marks stripped
C14_Witness ==
    /\ Len(calls) = 2
    /\ calls[1].op = "removeStyleMark"
    /\ calls[1].style = "strikethrough"
    /\ Count(calls[1].in, STRIKETHROUGH) = 2
    /\ calls[1].out = <<UNDERLINE>>
    /\ calls[2].op = "stripStyleMarks"
    /\ calls[2].out = <<>>

(***************************************************************************)
(* Properties of the reverse maps (checked under SpecEarly).               *)
(***************************************************************************)
\* the pairs <<plain, styled>> of all the categories of each style
ForwardPairs ==
    [style \in SubstitutionStyles |->
        UNION { {<<c, CHAR_MAPS[style][category][c]>> :
                     c \in DOMAIN CHAR_MAPS[style][category]} :
                category \in DOMAIN CHAR_MAPS[style] }]

StyledTargets == [style \in SubstitutionStyles |-> {pr[2] : pr \in ForwardPairs[style]}]

\* C15: once initializeReverseMaps has run, any number of times, for every
\* substitution style the styled targets of all its categories are pairwise
\* distinct and the reverse map is the exact inverse of the forward map:
\* its keys are the styled targets and reverse[s][forward[s][c]] = c.
C15_MapInverse ==
    MapsReady =>
        \A style \in SubstitutionStyles :
            /\ Cardinality(StyledTargets[style]) = Cardinality(ForwardPairs[style])
            /\ style \in DOMAIN REVERSE_CHAR_MAPS
            /\ DOMAIN REVERSE_CHAR_MAPS[style] = StyledTargets[style]
            /\ \A pr \in ForwardPairs[style] : REVERSE_CHAR_MAPS[style][pr[2]] = pr[1]

\* the table was empty, initializeReverseMaps ran, and a lookup through it
\* answered
C15_Witness ==
    /\ MapsReady
    /\ query.op = "isStyledWith"
    /\ query.style = "bold"
    /\ query.value
    /\ REVERSE_CHAR_MAPS["bold"][120812] = 48
    /\ REVERSE_CHAR_MAPS["smallCaps"][491] = 113
    /\ REVERSE_CHAR_MAPS["circled"][9450] = 48

(***************************************************************************)
(* Properties of toPlainText (checked under SpecPlain).                    *)
(***************************************************************************)
\* the loop of toPlainText run over the styles in another order
RECURSIVE RevertInOrder(_, _, _)
RevertInOrder(result, order, k) ==
    IF k > Len(order) THEN result
    ELSE IF order[k] \notin DOMAIN REVERSE_CHAR_MAPS
    THEN RevertInOrder(result, order, k + 1)
    ELSE RevertInOrder(
             mapGraphemes(result,
                 [cluster \in Clusters |-> RevertCluster(cluster, REVERSE_CHAR_MAPS[order[k]])]),
             order, k + 1)

PlainTextInOrder(t, order) ==
    IF t = <<>> THEN t
    ELSE LET stripped == mapGraphemes(normalizeNFC(t),
                             [cluster \in Clusters |-> stripStyleMarks(cluster)])
         IN  normalizeNFC(RevertInOrder(stripped, order, 1))

\* the insertion order rotated by r places, and reversed
Rotated(r) ==
    [i \in 1..Len(StyleOrder) |-> StyleOrder[((i - 1 + r) % Len(StyleOrder)) + 1]]

OtherOrders ==
    {Rotated(r) : r \in 1..(Len(StyleOrder) - 1)}
        \cup {[i \in 1..Len(StyleOrder) |-> StyleOrder[Len(StyleOrder) + 1 - i]]}

\* no code point is a key of two styles with different plain values, and no
\* plain value of one style is changed by another style
MapsAgree(maps) ==
    \A s1 \in DOMAIN maps : \A s2 \in DOMAIN maps \ {s1} :
        \A styled \in DOMAIN maps[s1] :
            LET plain == maps[s1][styled]
            IN  /\ styled \in DOMAIN maps[s2] => maps[s2][styled] = plain
                /\ plain \in DOMAIN maps[s2] => maps[s2][plain] = plain

BuiltMapsAgree == MapsAgree(BuiltReverseMaps)

\* C16: toPlainText gives the same result with the reverse maps applied in
\* another order: no code point is a key of two styles' reverse maps with
\* different plain values, and no output of a reverse map is changed by
\* another style's reverse map.
C16_OrderIndependent ==
    /\ REVERSE_CHAR_MAPS = BuiltReverseMaps => BuiltMapsAgree
    /\ \A i \in 1..Len(calls) :
           calls[i].op = "toPlainText" =>
               \A order \in OtherOrders :
                   PlainTextInOrder(calls[i].in, order) = calls[i].out

\* a text in bold, small capitals and circled digits at once, made plain
C16_Witness ==
    /\ Len(calls) = 1
    /\ calls[1].op = "toPlainText"
    /\ Contains(calls[1].in, 120302)
    /\ Contains(calls[1].in, 7424)
    /\ Contains(calls[1].in, 9450)
    /\ Len(calls[1].out) = 3
    /\ \A k \in 1..3 : calls[1].out[k] \in {97, 48}

\* C20: for any text the result of toPlainText contains neither managed mark
\* and no code point that a style's reverse map would change, so
\* toPlainText(toPlainText(t)) = toPlainText(t).
C20_PlainTextIdempotent ==
    \A i \in 1..Len(calls) :
        calls[i].op = "toPlainText" =>
            /\ \A k \in 1..Len(calls[i].out) :
                   /\ calls[i].out[k] \notin STYLE_MARKS
                   /\ \A style \in DOMAIN REVERSE_CHAR_MAPS :
                          calls[i].out[k] \in DOMAIN REVERSE_CHAR_MAPS[style] =>
                              REVERSE_CHAR_MAPS[style][calls[i].out[k]] = calls[i].out[k]
            /\ i > 1 => calls[i].out = calls[i].in

(***************************************************************************)
(* removeStyle against applyStyle (checked under SpecEdit).                *)
(***************************************************************************)
\* the code points of a style: its mark, or the keys of its reverse map that
\* the map changes
OwnCodePoints ==
    [style \in StyleIds |->
        IF style \in MarkStyles THEN {MarkOf(style)}
        ELSE {styled \in DOMAIN BuiltReverseMaps[style] :
                  BuiltReverseMaps[style][styled] # styled}]

OtherStyleCodePoints ==
    [style \in StyleIds |->
        UNION {OwnCodePoints[other] : other \in StyleIds \ {style}}
            \ (IF style \in MarkStyles THEN {MarkOf(style)}
               ELSE DOMAIN BuiltReverseMaps[style])]

\* plain ASCII/Greek text that may carry the managed marks other than the
\* style's own
PlainCarrying(x, style) ==
    \A i \in 1..Len(x) :
        x[i] \in PlainCharacters \cup (STYLE_MARKS \ OwnCodePoints[style])

RECURSIVE IsSubsequence(_, _)
IsSubsequence(a, b) ==
    IF a = <<>> THEN TRUE
    ELSE IF b = <<>> THEN FALSE
    ELSE IF Head(a) = Head(b) THEN IsSubsequence(Tail(a), Tail(b))
    ELSE IsSubsequence(a, Tail(b))

\* the code points of other styles are still there, in order, and a text
\* with nothing of the style comes back as it is
OthersLeftInPlace(y, style, out) ==
    /\ IsSubsequence(SelectSeq(y, LAMBDA cp : cp \in OtherStyleCodePoints[style]), out)
    /\ (\A i \in 1..Len(y) : y[i] \notin OwnCodePoints[style]) => out = y

AnswersWithoutMaps ==
    ~query.ready =>
        /\ (query.op = "isStyledWith" /\ query.style \in SubstitutionStyles) =>
               query.value = FALSE
        /\ query.op = "detectStyles" =>
               /\ DOMAIN query.value = StyleIds
               /\ \A style \in SubstitutionStyles : ~query.value[style]

\* C18 as stated: while the reverse-map table is empty, removeStyle with a
\* substitution style returns the input unchanged, toPlainText only strips
\* the two managed marks, isStyledWith is false for every substitution style
\* and detectStyles returns all 11 keys with every substitution style false.
C18_DormantMaps ==
    /\ query # NoQuery => AnswersWithoutMaps
    /\ \A i \in 1..Len(calls) :
           ~calls[i].ready =>
               /\ (calls[i].op = "removeStyle" /\ calls[i].style \in SubstitutionStyles) =>
                      calls[i].out = calls[i].in
               /\ calls[i].op = "toPlainText" =>
                      calls[i].out = Without(calls[i].in, STYLE_MARKS)

\* C18 amended: the same, where removeStyle returns the NFC-normalized input
\* and toPlainText returns the input without the two managed marks,
\* NFC-normalized.
C18_DormantMapsNFC ==
    /\ query # NoQuery => AnswersWithoutMaps
    /\ \A i \in 1..Len(calls) :
           ~calls[i].ready =>
               /\ (calls[i].op = "removeStyle" /\ calls[i].style \in SubstitutionStyles) =>
                      calls[i].out = normalizeNFC(calls[i].in)
               /\ calls[i].op = "toPlainText" =>
                      calls[i].out = normalizeNFC(Without(calls[i].in, STYLE_MARKS))

\* toPlainText on a struck-through bold text before the table is built, then
\* a detection that still sees no table
C18_Witness ==
    /\ calls # <<>>
    /\ calls[1].op = "toPlainText"
    /\ ~calls[1].ready
    /\ Contains(calls[1].in, 120302)
    /\ Contains(calls[1].in, STRIKETHROUGH)
    /\ calls[1].out = <<120302>>
    /\ query.op = "detectStyles"
    /\ ~query.ready
    /\ ~query.value["bold"]

(***************************************************************************)
(* applyStyle with a substitution style (checked under SpecEdit).          *)
(***************************************************************************)
\* forward[s] of a code point, the code point itself when s does not map it
Forward(style, cp) ==
    IF cp \in MappedBy(style)
    THEN (CHOOSE pr \in ForwardPairs[style] : pr[1] = cp)[2]
    ELSE cp

\* digits change only under bold, monospace, circled and fullwidth; Greek
\* letters only under bold, italic and boldItalic; uppercase is unchanged
\* under smallCaps; nothing but ASCII letters, digits and Greek letters is
\* mapped
ForwardDomains ==
    /\ {style \in SubstitutionStyles : (48..57) \cap MappedBy(style) # {}}
           = {"bold", "monospace", "circled", "fullwidth"}
    /\ {style \in SubstitutionStyles : (913..969) \cap MappedBy(style) # {}}
           = {"bold", "italic", "boldItalic"}
    /\ \A c \in 65..90 : Forward("smallCaps", c) = c
    /\ \A style \in SubstitutionStyles :
           /\ MappedBy(style) \subseteq
                  (48..57) \cup (65..90) \cup (97..122) \cup (913..929)
                      \cup (931..937) \cup (945..969)
           /\ \A c \in (48..57) \cap MappedBy(style) : Forward(style, c) # c
           /\ \A c \in (913..969) \cap MappedBy(style) : Forward(style, c) # c

\* C19 as stated, for NFC-normalized input: applyStyle with a substitution
\* style maps each code point of the input to forward[s] of it and passes
\* every code point with no mapping through unchanged and in position, with
\* the domains of the styles as listed.
C19_PointwiseForward ==
    /\ ForwardDomains
    /\ \A i \in 1..Len(calls) :
           (/\ calls[i].op = "applyStyle"
            /\ calls[i].style \in SubstitutionStyles
            /\ normalizeNFC(calls[i].in) = calls[i].in) =>
               calls[i].out =
                   [k \in 1..Len(calls[i].in) |-> Forward(calls[i].style, calls[i].in[k])]

\* C19 amended: applyStyle with a substitution style maps each code point of
\* the canonical decomposition (NFD) of the input to forward[s] of it, passes
\* every code point of the decomposition with no mapping through unchanged
\* and in position, and returns the result normalized to NFC; the domains of
\* the styles are as listed.
C19_PointwiseForwardOnNFD ==
    /\ ForwardDomains
    /\ \A i \in 1..Len(calls) :
           (calls[i].op = "applyStyle" /\ calls[i].style \in SubstitutionStyles) =>
               LET decomposed == normalizeNFD(calls[i].in)
               IN  calls[i].out =
                       normalizeNFC([k \in 1..Len(decomposed) |->
                                        Forward(calls[i].style, decomposed[k])])

\* bold removed from e + U+0301, which leaves the precomposed letter, and
\* bold applied to that: the base is styled, the accent kept
C19_Witness ==
    /\ Len(calls) = 2
    /\ calls[1].op = "removeStyle"
    /\ calls[2].op = "applyStyle"
    /\ calls[2].style = "bold"
    /\ calls[2].in = <<233>>
    /\ calls[2].out = <<120306, 769>>

(***************************************************************************)
(* Agreement of the two detection functions (checked under Spec).          *)
(***************************************************************************)
\* the answer isStyledWith has just given for a style of the 11, the maps
\* being as they were when it answered
AnsweredStyle(s) ==
    /\ query.op = "isStyledWith"
    /\ query.style = s
    /\ query.ready = MapsReady

\* C27 (as stated): for every text and every one of the 11 styles s,
\* isStyledWith(text, s) equals the flag detectStyles(text)[s].
C27_DetectionAgreement ==
    \A s \in StyleIds : AnsweredStyle(s) => query.value = detectStyles(text)[s]

\* C27 (amended): the two functions agree on the two mark styles, and for a
\* substitution style s the flag detectStyles(text)[s] implies
\* isStyledWith(text, s); the converse is not claimed, since punctuation and
\* other non-alphanumeric clusters count against the threshold of
\* detectStyles only.
C27_DetectionImpliesIsStyledWith ==
    /\ \A m \in MarkStyles : AnsweredStyle(m) => query.value = detectStyles(text)[m]
    /\ \A s \in SubstitutionStyles :
           AnsweredStyle(s) /\ detectStyles(text)[s] => query.value

\* isStyledWith has answered true for bold on a text where exactly half of
\* the non-whitespace clusters are bold, so detectStyles says bold as well
C27_Witness ==
    /\ AnsweredStyle("bold")
    /\ query.value
    /\ detectStyles(text)["bold"]
    /\ text = <<120302, 98, 10>>

(***************************************************************************)
(* Detection on plain text (checked under Spec).                           *)
(***************************************************************************)
\* ASCII letters of either case, digits, punctuation and whitespace
PlainAsciiText(t) == t # <<>> /\ \A i \in 1..Len(t) : t[i] \in (9..13) \cup (32..126)

\* C28: for a non-empty text of plain ASCII letters, digits, punctuation and
\* whitespace, detectStyles returns all 11 flags false and isStyledWith
\* returns false for every style.
C28_PlainIsUnstyled ==
    PlainAsciiText(text) =>
        /\ query.op = "detectStyles" => \A s \in StyleIds : ~query.value[s]
        /\ query.op = "isStyledWith" => ~query.value

(***************************************************************************)
(* The two style families under toggleStyle (checked under SpecToggle).    *)
(***************************************************************************)
\* the most recent call is a toggleStyle with a style of the given set
LastToggle(styles) ==
    /\ calls # <<>>
    /\ calls[Len(calls)].op = "toggleStyle"
    /\ calls[Len(calls)].style \in styles

LastIn == calls[Len(calls)].in

LastOut == calls[Len(calls)].out

CarriesMarks(t) == Contains(t, STRIKETHROUGH) \/ Contains(t, UNDERLINE)

MarkFlagsKept(before, after) == \A m \in MarkStyles : after[m] = before[m]

SubstitutionFlagsKept(before, after) == \A s \in SubstitutionStyles : after[s] = before[s]

\* every managed mark of the text sits in a cluster that begins with a code
\* point that is neither whitespace nor a managed mark
MarksOnBases(t) ==
    LET g == segmentGraphemes(t)
    IN  \A i \in 1..Len(g) :
            CarriesMarks(g[i]) =>
                /\ g[i][1] \notin STYLE_MARKS
                /\ HasNonWhiteSpace(<<g[i][1]>>)

\* C29 (as stated): toggling a substitution style on a text that carries
\* strikethrough or underline marks leaves the two mark flags of detectStyles
\* unchanged, and toggling a mark style leaves every substitution flag
\* unchanged.
C29_FamiliesOrthogonal ==
    /\ LastToggle(SubstitutionStyles) /\ CarriesMarks(LastIn) =>
           MarkFlagsKept(detectStyles(LastIn), detectStyles(LastOut))
    /\ LastToggle(MarkStyles) =>
           SubstitutionFlagsKept(detectStyles(LastIn), detectStyles(LastOut))

\* C29 (amended): toggling a substitution style on a text that carries marks
\* keeps the two mark flags only when the toggle removes an exclusive style
\* that isStyledWith finds; in every other case the text goes through
\* toPlainText and both mark flags are false afterwards.  Toggling a mark
\* style leaves every substitution flag unchanged when the text is in NFC and
\* each of its managed marks sits on a non-whitespace base.
C29_MarksSurviveRemovalOnly ==
    /\ LastToggle(SubstitutionStyles) /\ CarriesMarks(LastIn) =>
           IF LastToggle(ExclusiveStyles) /\ isStyledWith(LastIn, calls[Len(calls)].style)
           THEN MarkFlagsKept(detectStyles(LastIn), detectStyles(LastOut))
           ELSE ~CarriesMarks(LastOut)
    /\ LastToggle(MarkStyles) /\ normalizeNFC(LastIn) = LastIn /\ MarksOnBases(LastIn) =>
           SubstitutionFlagsKept(detectStyles(LastIn), detectStyles(LastOut))

\* script has been toggled off a struck-through script letter, the one case
\* in which a substitution toggle keeps the mark
C29_Witness ==
    /\ LastToggle({"script"})
    /\ LastIn = <<120042, 822>>
    /\ LastOut = <<97, 822>>

(***************************************************************************)
(* AIService (shared/ai.js).  The module's variables are gathered in one   *)
(* record so that a function of the module is an operator from state to    *)
(* state; an action commits the record its handler produces.               *)
(*                                                                         *)
(* A creation is one run of the async closure of getSession.  Its phase is *)
(* "availability" while isAvailable() is awaited, "create" while           *)
(* LanguageModel.create() is awaited, and then "fulfilled", "unavailable"  *)
(* or "failed"; `live` says that the session it created exists and has not *)
(* been destroyed, `after` how many times destroySession had run when      *)
(* LanguageModel.create() was called.  A timer is "pending" until it fires or is cleared; its *)
(* callback then awaits getSession ("session"), awaits s.append ("append") *)
(* or has returned.  A polish call awaits getSession ("session"), awaits   *)
(* s.prompt ("prompt") or is "settled" with its outcome.                   *)
(***************************************************************************)
AIState ==
    [session |-> session, sessionPromise |-> sessionPromise,
     isProcessing |-> isProcessing, pendingText |-> pendingText,
     debounceTimer |-> debounceTimer, creations |-> creations,
     timers |-> timers, polishCalls |-> polishCalls, destroys |-> destroys]

Commit(st) ==
    /\ session' = st.session
    /\ sessionPromise' = st.sessionPromise
    /\ isProcessing' = st.isProcessing
    /\ pendingText' = st.pendingText
    /\ debounceTimer' = st.debounceTimer
    /\ creations' = st.creations
    /\ timers' = st.timers
    /\ polishCalls' = st.polishCalls
    /\ destroys' = st.destroys

PendingPhases == {"availability", "create"}

\* the arguments of polish and appendText: blank, or a text to polish
Drafts == {"", "draft"}

\* clearTimeout(id): a pending timer never fires; any other id is ignored
clearTimeout(st, id) ==
    IF id \in DOMAIN st.timers /\ st.timers[id].phase = "pending"
    THEN [st EXCEPT !.timers[id].phase = "cleared"]
    ELSE st

\* if (debounceTimer) { clearTimeout(debounceTimer); debounceTimer = null; }
ClearDebounce(st) ==
    IF st.debounceTimer # Null
    THEN [clearTimeout(st, st.debounceTimer) EXCEPT !.debounceTimer = Null]
    ELSE st

destroySession(st) ==
    LET destroyed ==
            IF st.session # Null
            THEN [st EXCEPT !.creations[st.session].live = FALSE, !.session = Null]
            ELSE st
    IN  ClearDebounce([destroyed EXCEPT !.sessionPromise = Null, !.pendingText = NoText,
                                        !.destroys = @ + 1])

\* mutant: a creation in flight is never shared
SharesCreation_Never(st) == FALSE

\* if (sessionPromise) return sessionPromise;
SharesCreation(st) == st.sessionPromise # Null

\* getSession up to its return: the state it leaves, and the session
\* (`value`) or the creation promise (`promise`) the caller awaits
getSession(st) ==
    IF st.session # Null
    THEN [st |-> st, value |-> st.session, promise |-> Null]
    ELSE IF SharesCreation(st)
    THEN [st |-> st, value |-> Null, promise |-> st.sessionPromise]
    ELSE LET c == Len(st.creations) + 1
         IN  [st |-> [st EXCEPT !.creations =
                                    Append(@, [phase |-> "availability", live |-> FALSE,
                                               after |-> st.destroys]),
                                !.sessionPromise = c],
              value |-> Null, promise |-> c]

\* the catch and finally blocks of polish
PolishFails(st, p) ==
    [destroySession(st) EXCEPT !.isProcessing = FALSE,
                               !.polishCalls[p].phase = "settled",
                               !.polishCalls[p].outcome = "error"]

\* const s = await getSession(); ... await s.prompt(prompt)
PolishAwaits(p, r) ==
    LET Prompting(id) ==
            [r.st EXCEPT !.polishCalls[p].phase = "prompt", !.polishCalls[p].session = id]
    IN  IF r.value # Null THEN Prompting(r.value)
        ELSE IF r.st.creations[r.promise].phase \in PendingPhases
        THEN [r.st EXCEPT !.polishCalls[p].phase = "session",
                          !.polishCalls[p].promise = r.promise]
        ELSE IF r.st.creations[r.promise].phase = "fulfilled" THEN Prompting(r.promise)
        ELSE PolishFails(r.st, p)

\* mutant: a request is accepted while another is being served
PolishRejects_Never(st) == FALSE

\* if (isProcessing) throw new Error('Already processing a request');
PolishRejects(st) == st.isProcessing

PolishCall(phase, outcome, txt) ==
    [phase |-> phase, promise |-> Null, session |-> Null, outcome |-> outcome,
     text |-> txt]

polish(st, txt) ==
    LET p == Len(st.polishCalls) + 1
    IN  IF txt = ""
        THEN [st EXCEPT !.polishCalls = Append(@, PolishCall("settled", "No text provided", txt))]
        ELSE IF PolishRejects(st)
        THEN [st EXCEPT !.polishCalls =
                            Append(@, PolishCall("settled", "Already processing a request", txt))]
        ELSE LET accepted ==
                     [st EXCEPT !.isProcessing = TRUE,
                                !.polishCalls = Append(@, PolishCall("session", "pending", txt))]
             IN  PolishAwaits(p, getSession(ClearDebounce(accepted)))

appendText(st, txt) ==
    LET cleared == IF st.debounceTimer # Null THEN clearTimeout(st, st.debounceTimer) ELSE st
    IN  [cleared EXCEPT !.pendingText = txt,
                        !.timers = Append(@, [phase |-> "pending", promise |-> Null,
                                              session |-> Null]),
                        !.debounceTimer = Len(cleared.timers) + 1]

\* the callback of the debounce timer, up to its first await that waits
DebounceCallback(st, i) ==
    IF st.pendingText \in {NoText, ""} \/ st.isProcessing
    THEN [st EXCEPT !.timers[i].phase = "returned"]
    ELSE LET r == getSession(st)
             Appending(id) ==
                 [r.st EXCEPT !.timers[i].phase = "append", !.timers[i].session = id]
         IN  IF r.value # Null THEN Appending(r.value)
             ELSE IF r.st.creations[r.promise].phase \in PendingPhases
             THEN [r.st EXCEPT !.timers[i].phase = "session",
                               !.timers[i].promise = r.promise]
             ELSE IF r.st.creations[r.promise].phase = "fulfilled"
             THEN Appending(r.promise)
             ELSE [r.st EXCEPT !.timers[i].phase = "returned"]

AwaitingPolishes(st, c) ==
    {p \in DOMAIN st.polishCalls :
        st.polishCalls[p].phase = "session" /\ st.polishCalls[p].promise = c}

\* the continuations of the callers awaiting creation c, once it is fulfilled
ResolveAwaiters(st, c) ==
    [st EXCEPT
        !.polishCalls =
            [p \in DOMAIN st.polishCalls |->
                IF p \in AwaitingPolishes(st, c)
                THEN [st.polishCalls[p] EXCEPT !.phase = "prompt", !.session = c]
                ELSE st.polishCalls[p]],
        !.timers =
            [i \in DOMAIN st.timers |->
                IF st.timers[i].phase = "session" /\ st.timers[i].promise = c
                THEN [st.timers[i] EXCEPT !.phase = "append", !.session = c]
                ELSE st.timers[i]]]

\* the continuations of the callers awaiting creation c, once it is rejected:
\* a debounce callback logs and returns, polish runs its catch and finally
RejectAwaiters(st, c) ==
    LET waiting == AwaitingPolishes(st, c)
        skipped ==
            [st EXCEPT
                !.timers =
                    [i \in DOMAIN st.timers |->
                        IF st.timers[i].phase = "session" /\ st.timers[i].promise = c
                        THEN [st.timers[i] EXCEPT !.phase = "returned"]
                        ELSE st.timers[i]],
                !.polishCalls =
                    [p \in DOMAIN st.polishCalls |->
                        IF p \in waiting
                        THEN [st.polishCalls[p] EXCEPT !.phase = "settled",
                                                       !.outcome = "error"]
                        ELSE st.polishCalls[p]]]
    IN  IF waiting = {} THEN skipped
        ELSE [destroySession(skipped) EXCEPT !.isProcessing = FALSE]

\* isAvailable() settles inside the closure of getSession
availabilitySettled(st, c, available) ==
    IF available
    THEN [st EXCEPT !.creations[c].phase = "create", !.creations[c].after = st.destroys]
    ELSE RejectAwaiters([st EXCEPT !.creations[c].phase = "unavailable",
                                   !.sessionPromise = Null], c)

\* LanguageModel.create() settles inside the closure of getSession
createSettled(st, c, created) ==
    IF created
    THEN ResolveAwaiters([st EXCEPT !.creations[c].phase = "fulfilled",
                                    !.creations[c].live = TRUE,
                                    !.session = c], c)
    ELSE RejectAwaiters([st EXCEPT !.creations[c].phase = "failed"], c)

\* s.prompt() settles inside polish
promptSettled(st, p, result) ==
    IF result = "polished"
    THEN [st EXCEPT !.isProcessing = FALSE,
                    !.polishCalls[p].phase = "settled",
                    !.polishCalls[p].outcome = "fulfilled"]
    ELSE PolishFails(st, p)

isBusy == isProcessing

(***************************************************************************)
(* AIService in use: polish and appendText are called at any time, timers  *)
(* fire and the promises of the Prompt API settle in any order.            *)
(***************************************************************************)
Polish(txt) ==
    /\ Len(polishCalls) < MaxPolish
    /\ Commit(polish(AIState, txt))
    /\ UNCHANGED <<engineVars, contentVars>>

AppendText(txt) ==
    /\ Len(timers) < MaxAppends
    /\ Commit(appendText(AIState, txt))
    /\ UNCHANGED <<engineVars, contentVars>>

DebounceFires(i) ==
    /\ timers[i].phase = "pending"
    /\ Commit(DebounceCallback(AIState, i))
    /\ UNCHANGED <<engineVars, contentVars>>

AvailabilitySettles(c, available) ==
    /\ creations[c].phase = "availability"
    /\ Commit(availabilitySettled(AIState, c, available))
    /\ UNCHANGED <<engineVars, contentVars>>

CreateSettles(c, created) ==
    /\ creations[c].phase = "create"
    /\ Commit(createSettled(AIState, c, created))
    /\ UNCHANGED <<engineVars, contentVars>>

PromptSettles(p, result) ==
    /\ polishCalls[p].phase = "prompt"
    /\ Commit(promptSettled(AIState, p, result))
    /\ UNCHANGED <<engineVars, contentVars>>

\* s.append() settles inside the debounce callback: resolved or caught, the
\* callback returns
AppendSettles(i) ==
    /\ timers[i].phase = "append"
    /\ timers' = [timers EXCEPT ![i].phase = "returned"]
    /\ UNCHANGED <<session, sessionPromise, isProcessing, pendingText, debounceTimer,
                   creations, polishCalls, destroys, engineVars, contentVars>>

InitAI ==
    /\ InitAIService
    /\ InitContentScript
    /\ InitLoaded
    /\ text = <<>>
    /\ calls = <<>>
    /\ query = NoQuery

NextAI ==
    \/ \E txt \in Drafts : Polish(txt)
    \/ \E txt \in Drafts : AppendText(txt)
    \/ \E i \in DOMAIN timers : DebounceFires(i)
    \/ \E c \in DOMAIN creations : \E available \in BOOLEAN : AvailabilitySettles(c, available)
    \/ \E c \in DOMAIN creations : \E created \in BOOLEAN : CreateSettles(c, created)
    \/ \E p \in DOMAIN polishCalls :
           \E result \in {"polished", "empty", "error"} : PromptSettles(p, result)
    \/ \E i \in DOMAIN timers : AppendSettles(i)

SpecAI == InitAI /\ [][NextAI]_vars

(***************************************************************************)
(* Properties of AIService (checked under SpecAI).                         *)
(***************************************************************************)
InFlight == {p \in DOMAIN polishCalls : polishCalls[p].phase \in {"session", "prompt"}}

Prompts == {p \in DOMAIN polishCalls : polishCalls[p].phase = "prompt"}

\* this step is a polish call with a text, made while a request is served
PolishWhileBusy ==
    /\ Len(polishCalls') = Len(polishCalls) + 1
    /\ polishCalls'[Len(polishCalls')].text # ""
    /\ isProcessing

C21_Exclusion ==
    /\ Cardinality(Prompts) <= 1
    /\ Cardinality(InFlight) <= 1
    /\ isBusy <=> InFlight # {}

C21_Rejection ==
    PolishWhileBusy =>
        /\ polishCalls'[Len(polishCalls')].outcome = "Already processing a request"
        /\ UNCHANGED <<isProcessing, session, sessionPromise, debounceTimer, timers>>

InCreation == {c \in DOMAIN creations : creations[c].phase \in PendingPhases}

Live == {c \in DOMAIN creations : creations[c].live}

Failed == {c \in DOMAIN creations : creations[c].phase \in {"unavailable", "failed"}}

\* the creations whose closure has called LanguageModel.create
RanCreate == {c \in DOMAIN creations : creations[c].phase \in {"create", "fulfilled", "failed"}}

\* the creation promises some caller of getSession is awaiting
Awaited ==
    {polishCalls[p].promise : p \in {q \in DOMAIN polishCalls : polishCalls[q].phase = "session"}}
        \cup {timers[i].promise : i \in {j \in DOMAIN timers : timers[j].phase = "session"}}

\* C22: after a failed session creation (AI unavailable or LanguageModel.create
\* rejecting, whether polish or the debounced appendText started it) or a
\* failed prompt, neither a rejected creation promise nor a destroyed session
\* stays cached, so the next polish call starts a fresh creation.
C22_NoFailureCached ==
    /\ sessionPromise # Null => sessionPromise \notin Failed
    /\ session # Null => session \in Live

\* C23: callers of getSession that arrive while a creation is in flight share
\* it, so at no time are two creations in flight or two sessions live, and
\* LanguageModel.create is called again only after destroySession has run.
C23_SessionReuse ==
    /\ Cardinality(InCreation) <= 1
    /\ Cardinality(Live) <= 1
    /\ Awaited \subseteq InCreation
    /\ \A c, d \in RanCreate : c < d => creations[c].after < creations[d].after

\* a polish call and a debounce callback await the same creation, which is
\* the second one of the behaviour: the first session was destroyed after a
\* failed prompt
C23_Witness ==
    /\ Len(creations) = 2
    /\ creations[1].phase = "fulfilled"
    /\ creations[2].phase = "create"
    /\ \E p \in DOMAIN polishCalls :
           polishCalls[p].phase = "session" /\ polishCalls[p].promise = 2
    /\ \E i \in DOMAIN timers : timers[i].phase = "session" /\ timers[i].promise = 2

(***************************************************************************)
(* The floating toolbar of the content script (content/content.js).  The   *)
(* module's variables are gathered in one record, as for AIService.        *)
(*                                                                         *)
(* The page has two editable elements and a body that is not editable.     *)
(* A long-press timer is "pending" until it fires or is cleared.  The      *)
(* record `handled` names the event handled last and says whether its      *)
(* handler ran hideToolbar (`hid`) and whether a beforeinput handler       *)
(* replaced the typed text by a styled one (`restyled`).                   *)
(***************************************************************************)
EditableElements == {"input", "editor"}

\* the styles of the buttons pressed: those that have a shortcut, and one
\* exclusive style
ButtonStyles == {"bold", "italic", "underline", "strikethrough", "script"}

\* SHORTCUT_MAP
ShortcutStyles == {"bold", "italic", "underline", "strikethrough"}

\* the data of a beforeinput event: a letter, a space
TypedTexts == {<<97>>, <<32>>}

ContentState ==
    [toolbar |-> toolbar, toolbarVisible |-> toolbarVisible,
     currentElement |-> currentElement, activeStyle |-> activeStyle,
     toolbarDisabled |-> toolbarDisabled, longPressTimer |-> longPressTimer,
     longPressTarget |-> longPressTarget, isLongPressing |-> isLongPressing,
     pressTimers |-> pressTimers, activeElement |-> activeElement,
     focusTimers |-> focusTimers, handled |-> handled]

\* the state a handler starts from: nothing done yet for this event
Handling(event) ==
    [ContentState EXCEPT !.handled = [event |-> event, hid |-> FALSE, restyled |-> FALSE]]

CommitContent(st) ==
    /\ toolbar' = st.toolbar
    /\ toolbarVisible' = st.toolbarVisible
    /\ currentElement' = st.currentElement
    /\ activeStyle' = st.activeStyle
    /\ toolbarDisabled' = st.toolbarDisabled
    /\ longPressTimer' = st.longPressTimer
    /\ longPressTarget' = st.longPressTarget
    /\ isLongPressing' = st.isLongPressing
    /\ pressTimers' = st.pressTimers
    /\ activeElement' = st.activeElement
    /\ focusTimers' = st.focusTimers
    /\ handled' = st.handled

\* mutant: the toolbar is shown whether or not it is disabled
ShowToolbarBlocked_Never(st) == FALSE

\* if (toolbarDisabled) return;
ShowToolbarBlocked(st) == st.toolbarDisabled

showToolbar(st, element) ==
    IF ShowToolbarBlocked(st) THEN st
    ELSE [st EXCEPT !.toolbar = "toolbar", !.currentElement = element,
                    !.toolbarVisible = TRUE]

hideToolbar(st) ==
    LET hidden ==
            IF st.toolbar # NoElement
            THEN [st EXCEPT !.toolbarVisible = FALSE, !.activeStyle = NoStyle]
            ELSE st
    IN  [hidden EXCEPT !.currentElement = NoElement, !.handled.hid = TRUE]

toggleToolbar(st, element) ==
    LET flipped == [st EXCEPT !.toolbarDisabled = ~@]
    IN  IF flipped.toolbarDisabled THEN hideToolbar(flipped)
        ELSE IF element \in EditableElements THEN showToolbar(flipped, element)
        ELSE IF flipped.activeElement \in EditableElements
        THEN showToolbar(flipped, flipped.activeElement)
        ELSE flipped

\* clearTimeout(id) for a long-press timer
clearPressTimeout(st, id) ==
    IF id \in DOMAIN st.pressTimers /\ st.pressTimers[id].phase = "pending"
    THEN [st EXCEPT !.pressTimers[id].phase = "cleared"]
    ELSE st

\* mutant: the variables are reset but the timer is left running
cancelLongPress_KeepTimer(st) ==
    [st EXCEPT !.longPressTimer = Null, !.longPressTarget = NoElement,
               !.isLongPressing = FALSE]

cancelLongPress(st) ==
    LET cleared ==
            IF st.longPressTimer # Null
            THEN [clearPressTimeout(st, st.longPressTimer) EXCEPT !.longPressTimer = Null]
            ELSE st
    IN  [cleared EXCEPT !.longPressTarget = NoElement, !.isLongPressing = FALSE]

startLongPress(st, element) ==
    LET cancelled == cancelLongPress(st)
    IN  [cancelled EXCEPT !.longPressTarget = element,
                          !.isLongPressing = TRUE,
                          !.pressTimers = Append(@, [element |-> element, phase |-> "pending"]),
                          !.longPressTimer = Len(cancelled.pressTimers) + 1]

\* the callback startLongPress hands to setTimeout
LongPressCallback(st, i) ==
    LET element == st.pressTimers[i].element
        fired == [st EXCEPT !.pressTimers[i].phase = "fired"]
    IN  IF fired.longPressTarget = element
        THEN cancelLongPress(toggleToolbar(fired, element))
        ELSE fired

\* focus moves to `target`: a focusout event where an element loses it (its
\* listener sets a timer), a focusin event where an editable element gains it
MoveFocus(st, target) ==
    IF st.activeElement = target THEN st
    ELSE LET left == IF st.activeElement # "body"
                     THEN [st EXCEPT !.focusTimers = @ + 1]
                     ELSE st
             moved == [left EXCEPT !.activeElement = target]
         IN  IF target \in EditableElements THEN showToolbar(moved, target) ELSE moved

\* `selected` says whether getSelectedText() returns a non-empty string
handleStyleButtonClick(st, styleId, selected) ==
    LET styled ==
            IF selected THEN st
            ELSE IF st.activeStyle = styleId THEN [st EXCEPT !.activeStyle = NoStyle]
            ELSE [st EXCEPT !.activeStyle = styleId]
    IN  IF styled.currentElement # NoElement
        THEN MoveFocus(styled, styled.currentElement)
        ELSE styled

handleKeyboardShortcut(st, styleId, selected) ==
    handleStyleButtonClick([st EXCEPT !.currentElement = st.activeElement], styleId, selected)

\* the callback of the focusout listener
FocusOutCallback(st) ==
    LET waited == [st EXCEPT !.focusTimers = @ - 1]
    IN  IF waited.toolbar # NoElement /\ waited.activeElement = "toolbar" THEN waited
        ELSE IF waited.activeElement \in EditableElements THEN waited
        ELSE hideToolbar(waited)

\* the beforeinput listener
BeforeInputHandler(st, data) ==
    IF st.activeStyle = NoStyle THEN st
    ELSE [st EXCEPT !.handled.restyled = (applyStyle(data, st.activeStyle) # data)]

(***************************************************************************)
(* The content script in use: any sequence of focus changes, mouse and     *)
(* keyboard events, typing and timers.                                     *)
(***************************************************************************)
ContentStep(st) ==
    /\ st.focusTimers <= MaxFocusTimers
    /\ CommitContent(st)
    /\ UNCHANGED <<engineVars, aiVars>>

\* the user moves the focus: to an editable element, to the page body, or to
\* a button of the visible toolbar
Focus(target) ==
    /\ target # activeElement
    /\ target = "toolbar" => toolbarVisible
    /\ ContentStep(MoveFocus(Handling(IF target \in EditableElements THEN "focusin"
                                      ELSE "focusout"), target))

FocusOutTimer ==
    /\ focusTimers > 0
    /\ ContentStep(FocusOutCallback(Handling("focusoutTimer")))

MouseDown(element) ==
    /\ Len(pressTimers) < MaxPresses
    /\ ContentStep(startLongPress(Handling("mousedown"), element))

\* a mousedown outside every editable element: the listener does nothing
MouseDownElsewhere == ContentStep(Handling("mousedownElsewhere"))

MouseUp == ContentStep(cancelLongPress(Handling("mouseup")))

MouseLeave == ContentStep(cancelLongPress(Handling("mouseleave")))

MouseMove(isOutside) ==
    ContentStep(IF isLongPressing /\ longPressTarget # NoElement /\ isOutside
                THEN cancelLongPress(Handling("mousemoveOutside"))
                ELSE Handling("mousemove"))

LongPressFires(i) ==
    /\ pressTimers[i].phase = "pending"
    /\ ContentStep(LongPressCallback(Handling("longPress"), i))

\* a mousedown on a style button of the toolbar, which takes pointer events
\* only while it is visible
ClickStyleButton(styleId, selected) ==
    /\ toolbarVisible
    /\ selected => currentElement # NoElement
    /\ ContentStep(handleStyleButtonClick(Handling("click"), styleId, selected))

KeyboardShortcut(styleId, selected) ==
    /\ activeElement \in EditableElements
    /\ ContentStep(handleKeyboardShortcut(Handling("keydown"), styleId, selected))

BeforeInput(data) ==
    /\ activeElement \in EditableElements
    /\ ContentStep(BeforeInputHandler(Handling("beforeinput"), data))

InitContent ==
    /\ InitAIService
    /\ InitContentScript
    /\ InitLoaded
    /\ text = <<>>
    /\ calls = <<>>
    /\ query = NoQuery

NextContent ==
    \/ \E target \in EditableElements \cup {"body", "toolbar"} : Focus(target)
    \/ FocusOutTimer
    \/ \E element \in EditableElements : MouseDown(element)
    \/ MouseDownElsewhere
    \/ MouseUp
    \/ MouseLeave
    \/ \E isOutside \in BOOLEAN : MouseMove(isOutside)
    \/ \E i \in DOMAIN pressTimers : LongPressFires(i)
    \/ \E styleId \in ButtonStyles : \E selected \in BOOLEAN : ClickStyleButton(styleId, selected)
    \/ \E styleId \in ShortcutStyles : \E selected \in BOOLEAN :
           KeyboardShortcut(styleId, selected)
    \/ \E data \in TypedTexts : BeforeInput(data)

SpecContent == InitContent /\ [][NextContent]_vars

(***************************************************************************)
(* Properties of the toolbar (checked under SpecContent).                  *)
(***************************************************************************)
C24_VisibleImpliesEnabled ==
    toolbarVisible => ~toolbarDisabled /\ currentElement # NoElement

\* a focusin event on an editable element while the toolbar is disabled
\* leaves the toolbar as it was
C24_ShowIsNoOpWhileDisabled ==
    toolbarDisabled /\ handled'.event = "focusin" =>
        UNCHANGED <<toolbar, toolbarVisible, currentElement, activeStyle, toolbarDisabled>>

\* C24: the toolbar starts globally disabled, showToolbar does nothing while
\* it is disabled, and in every reachable state the toolbar being visible
\* implies that toolbarDisabled is false and currentElement is set.
C24_ToolbarEnable ==
    /\ toolbarDisabled = TRUE
    /\ [](C24_VisibleImpliesEnabled)
    /\ [][C24_ShowIsNoOpWhileDisabled]_vars

\* the toolbar has been enabled by a long-press and is shown on the editor
C24_Witness ==
    /\ toolbarVisible
    /\ ~toolbarDisabled
    /\ currentElement = "editor"
    /\ handled.event = "longPress"

\* C25: after every run of hideToolbar, whatever events came before it,
\* activeStyle is null.
C25_HideClearsActiveStyle == handled.hid => activeStyle = NoStyle

PendingPresses == {i \in DOMAIN pressTimers : pressTimers[i].phase = "pending"}

\* the events that cancel a long-press
CancelEvents == {"mouseup", "mouseleave", "mousemoveOutside", "mousedown"}

C26_OnePending ==
    /\ Cardinality(PendingPresses) <= 1
    /\ \A i \in PendingPresses :
           /\ longPressTimer = i
           /\ longPressTarget = pressTimers[i].element
           /\ isLongPressing

C26_Step ==
    /\ toolbarDisabled' # toolbarDisabled <=>
           \E i \in PendingPresses : pressTimers'[i].phase = "fired"
    /\ handled'.event \in CancelEvents =>
           \A i \in PendingPresses : pressTimers'[i].phase = "cleared"

====
